---------------------------- MODULE Spec2Model ----------------------------
(***************************************************************************)
(* System-Monitor-Bot: the alert coordinator (internal/bot), the           *)
(* temperature classifier (internal/monitor, internal/embed) and the port  *)
(* deduplicator (internal/embed), modelled from the Go sources.            *)
(*                                                                         *)
(* The bot runs three kinds of goroutines over one SystemMonitor value     *)
(* without any lock: the temperature-poll task, the memory-poll task and   *)
(* one goroutine per slash-command interaction.  Every statement that      *)
(* touches alertChannels, lastAlert or lastMemoryData is a separate step   *)
(* here, so that the interleavings the Go scheduler allows are behaviours  *)
(* of Spec.                                                                *)
(***************************************************************************)
EXTENDS Integers, Sequences, FiniteSets, TLC

(***************************************************************************)
(* Bounds of the model.                                                    *)
(***************************************************************************)
\* Clock ticks that make up one alert cooldown (the clock unit is
\* AlertCooldown / CooldownTicks).
CooldownTicks == 2
\* Clock ticks observed after the process has started.
Horizon == 2
\* Interaction handlers that may run at the same time.
MaxInFlight == 1
\* Longest sensor list a poll returns.
MaxSensors == 2
\* Longest port list handed to deduplicatePorts.
MaxPorts == 3
\* Longest port list of mixed entries handed to BuildPorts.
MaxRenderPorts == 2
\* Most TCP and UDP listeners of a generated port list handed to BuildPorts.
MaxTcp == 74
\* longest generated list handed to chunkPorts on its own
MaxChunkPorts == 13
MaxUdp == 1
\* Longest table of mixed lines, and of generated process lines, handed to
\* parseTopOutput.
MaxRows == 3
MaxTableRows == 22
\* Most lines under the header of an output handed to parseNetworkOutput.
MaxLines == 3
\* lines of a sensors output that count
MaxReadings == 2
\* core sensors of a machine whose pages are built
MaxPageSensors == 25

(***************************************************************************)
(* Program constants.  Temperatures are whole degrees Celsius.             *)
(***************************************************************************)
AlertCooldown == CooldownTicks
WarningThreshold == 70
CriticalThreshold == 80

TempNormal == 0
TempWarning == 1
TempCritical == 2

\* time.Time{}: the zero value lastAlert has after New.
ZeroTime == 0
\* The process starts long after the zero time: time.Since(time.Time{})
\* saturates far above any cooldown.
BootTime == AlertCooldown + 1
MaxTime == BootTime + Horizon

Channels == {"c1", "c2"}
TempValues == {-5, 65, 72, 85}

\* the process table GetTopProcesses returns when it returns one: the
\* memory shares of the processes, largest first
Snapshots == {<<40, 7>>}

VARIABLES
    now,                \* wall clock, in ticks
    alertChannels,      \* sm.alertChannels (the keys of the map)
    lastAlert,          \* sm.lastAlert
    lastMemoryData,     \* sm.lastMemoryData
    crashed,            \* the Go runtime has terminated the process
    tpc,                \* position of the temperature-poll goroutine
    sensors,            \* sensors of the current temperature cycle
    level,              \* level argument of sendTemperatureAlert
    subscribedAtStart,  \* history: alertChannels when the guard was passed
    must,               \* range state: entries present since the range began
    may,                \* range state: entries created during the range
    cur,                \* channelID of the current loop iteration
    delivery,           \* history: deliveries of this dispatch, per channel
    mpc,                \* position of the memory-poll goroutine
    processes,          \* processes of the current memory cycle
    handlers,           \* the running interaction goroutines, counted by
                        \* the statement they have reached
    input,              \* argument of the pure function under study
    result,             \* its result
    stage               \* how far it has been applied

sharedVars == <<alertChannels, lastAlert, lastMemoryData>>
tempVars == <<tpc, sensors, level, subscribedAtStart, must, may, cur, delivery>>
memVars == <<mpc, processes>>
pureVars == <<input, result, stage>>

vars == <<now, alertChannels, lastAlert, lastMemoryData, crashed,
          tpc, sensors, level, subscribedAtStart, must, may, cur, delivery,
          mpc, processes, handlers, input, result, stage>>

NoChannel == "none"

\* What a running interaction goroutine can be doing: an /alerts handler is
\* at its write of the alertChannels map, a /status handler at its reads.
AlertsHandlers ==
    {[pc |-> "write", action |-> a, ch |-> c] :
        a \in {"enable", "disable"}, c \in Channels}
StatusHandler == [pc |-> "read", action |-> "status", ch |-> NoChannel]
\* A /temp, /ports or /memory handler is at its call of the monitor; it
\* refers to none of the shared fields.
OnDemandHandler == [pc |-> "fetch", action |-> "report", ch |-> NoChannel]
HandlerKinds == AlertsHandlers \cup {StatusHandler, OnDemandHandler}
NoHandlers == [h \in HandlerKinds |-> 0]

RECURSIVE CountIn(_, _)
CountIn(running, kinds) ==
    IF kinds = {} THEN 0
    ELSE LET h == CHOOSE k \in kinds : TRUE
         IN  running[h] + CountIn(running, kinds \ {h})
InFlight == CountIn(handlers, HandlerKinds)
Writing == CountIn(handlers, AlertsHandlers)
Reading == handlers[StatusHandler]
NoDelivery == [c \in Channels |-> "none"]

(***************************************************************************)
(* Classifier.                                                             *)
(***************************************************************************)
\* the comparisons made strict
getTemperatureStatusStrict(critical, warning, temp) ==
    IF temp > critical THEN TempCritical
    ELSE IF temp > warning THEN TempWarning
    ELSE TempNormal

\* TemperatureMonitor.getTemperatureStatus
getTemperatureStatus(critical, warning, temp) ==
    IF temp >= critical THEN TempCritical
    ELSE IF temp >= warning THEN TempWarning
    ELSE TempNormal

\* Builder.getTemperatureStatus
BuilderGetTemperatureStatus(critical, warning, temp) ==
    IF temp >= critical THEN TempCritical
    ELSE IF temp >= warning THEN TempWarning
    ELSE TempNormal

\* A TemperatureSensor as the parser builds it: Status is derived.
Sensor(temp) ==
    [Temperature |-> temp,
     Status |-> getTemperatureStatus(CriticalThreshold, WarningThreshold, temp)]

\* var maxSensor monitor.TemperatureSensor: Temperature 0, Status TempNormal.
ZeroSensor == [Temperature |-> 0, Status |-> TempNormal]

RECURSIVE FindMax(_, _)
FindMax(list, maxSensor) ==
    IF list = <<>> THEN maxSensor
    ELSE FindMax(Tail(list),
                 IF Head(list).Temperature > maxSensor.Temperature
                 THEN Head(list) ELSE maxSensor)

\* a slip: the first reading is taken for the hottest
maxSensorFirst(list) == list[1]

maxSensorOf(list) == FindMax(list, ZeroSensor)

SensorLists ==
    UNION {[1..n -> {Sensor(t) : t \in TempValues}] : n \in 0..MaxSensors}

(***************************************************************************)
(* Time and the runtime.                                                   *)
(***************************************************************************)
\* time.Since(t)
Since(t) == now - t

Tick ==
    /\ ~crashed
    /\ now < MaxTime
    /\ now' = now + 1
    /\ UNCHANGED <<sharedVars, crashed, tempVars, memVars, handlers, pureVars>>

\* Some handler is inside its write of the alertChannels map.
MapWriteInProgress == Writing > 0

\* The unsynchronised accesses that the Go runtime may detect or that fault:
\* a map iteration or delete by the dispatch loop during a handler's map
\* write, two handlers' map writes, and a /status read of the slice header
\* of lastMemoryData while the first snapshot is being stored.
RaceFault ==
    \/ tpc \in {"range", "loop", "send"} /\ MapWriteInProgress
    \/ Writing >= 2
    \/ /\ Reading > 0
       /\ mpc = "store"
       /\ Len(lastMemoryData) = 0

\* fatal error: concurrent map iteration and map write / concurrent map
\* writes / nil dereference: every goroutine is gone, the shared values are
\* kept only for reference.
RuntimeFatal ==
    /\ ~crashed
    /\ RaceFault
    /\ crashed' = TRUE
    /\ tpc' = "wait"
    /\ sensors' = <<>>
    /\ level' = "none"
    /\ subscribedAtStart' = {}
    /\ must' = {}
    /\ may' = {}
    /\ cur' = NoChannel
    /\ delivery' = NoDelivery
    /\ mpc' = "wait"
    /\ processes' = <<>>
    /\ handlers' = NoHandlers
    /\ UNCHANGED <<now, sharedVars, pureVars>>

(***************************************************************************)
(* startTemperatureMonitoring                                              *)
(***************************************************************************)
\* the ticker fires; GetSensors fails, yields nothing, or yields a list
TempGetSensors ==
    /\ ~crashed
    /\ tpc = "wait"
    /\ \E err \in BOOLEAN, list \in SensorLists :
         IF err \/ Len(list) = 0
         THEN /\ tpc' = "skip"
              /\ UNCHANGED sensors
         ELSE /\ tpc' = "eval"
              /\ sensors' = list
    /\ UNCHANGED <<now, sharedVars, crashed, level, subscribedAtStart, must,
                   may, cur, delivery, memVars, handlers, pureVars>>

\* continue, after the error or the warning is logged: back to the ticker
TempContinue ==
    /\ ~crashed
    /\ tpc = "skip"
    /\ tpc' = "wait"
    /\ UNCHANGED <<now, sharedVars, crashed, sensors, level, subscribedAtStart,
                   must, may, cur, delivery, memVars, handlers, pureVars>>

\* the maximum is found and the alert condition is checked
TempEvaluate ==
    /\ ~crashed
    /\ tpc = "eval"
    /\ LET maxSensor == maxSensorOf(sensors) IN
         IF maxSensor.Status = TempCritical
         THEN /\ tpc' = "cooldown"
              /\ level' = "CRITICAL"
              /\ UNCHANGED sensors
         ELSE IF maxSensor.Status = TempWarning
         THEN /\ tpc' = "cooldown"
              /\ level' = "WARNING"
              /\ UNCHANGED sensors
         ELSE /\ tpc' = "wait"
              /\ sensors' = <<>>
              /\ UNCHANGED level
    /\ UNCHANGED <<now, sharedVars, crashed, subscribedAtStart, must, may, cur,
                   delivery, memVars, handlers, pureVars>>

(***************************************************************************)
(* sendTemperatureAlert                                                    *)
(***************************************************************************)
\* a slip: the cooldown ends one tick early
CooldownActiveShort == Since(lastAlert) + 1 < AlertCooldown

CooldownActive == Since(lastAlert) < AlertCooldown

\* the locals of the call go out of scope on return
AlertReturn ==
    /\ tpc' = "wait"
    /\ sensors' = <<>>
    /\ level' = "none"
    /\ subscribedAtStart' = {}
    /\ must' = {}
    /\ may' = {}
    /\ cur' = NoChannel
    /\ delivery' = NoDelivery

\* a slip: a suppressed call restarts the cooldown
AlertCheckCooldownRefresh ==
    /\ ~crashed
    /\ tpc = "cooldown"
    /\ IF CooldownActive
       THEN /\ AlertReturn
            /\ lastAlert' = now
       ELSE /\ tpc' = "channels"
            /\ UNCHANGED <<lastAlert, sensors, level, subscribedAtStart, must,
                           may, cur, delivery>>
    /\ UNCHANGED <<now, alertChannels, lastMemoryData, crashed, memVars,
                   handlers, pureVars>>

\* timeSinceLastAlert < sm.config.Monitor.AlertCooldown
AlertCheckCooldown ==
    /\ ~crashed
    /\ tpc = "cooldown"
    /\ IF CooldownActive
       THEN AlertReturn
       ELSE /\ tpc' = "channels"
            /\ UNCHANGED <<sensors, level, subscribedAtStart, must, may, cur,
                           delivery>>
    /\ UNCHANGED <<now, sharedVars, crashed, memVars, handlers, pureVars>>

\* a slip: the check for an empty destination set is missing
AlertCheckChannelsUnguarded ==
    /\ ~crashed
    /\ tpc = "channels"
    /\ tpc' = "range"
    /\ sensors' = <<>>
    /\ level' = "none"
    /\ subscribedAtStart' = alertChannels
    /\ UNCHANGED <<must, may, cur, delivery>>
    /\ UNCHANGED <<now, sharedVars, crashed, memVars, handlers, pureVars>>

\* len(sm.alertChannels) == 0; otherwise BuildAlert consumes level and sensors
AlertCheckChannels ==
    /\ ~crashed
    /\ tpc = "channels"
    /\ IF Cardinality(alertChannels) = 0
       THEN AlertReturn
       ELSE /\ tpc' = "range"
            /\ sensors' = <<>>
            /\ level' = "none"
            /\ subscribedAtStart' = alertChannels
            /\ UNCHANGED <<must, may, cur, delivery>>
    /\ UNCHANGED <<now, sharedVars, crashed, memVars, handlers, pureVars>>

\* for channelID := range sm.alertChannels: the iterator is created
AlertRangeStart ==
    /\ ~crashed
    /\ tpc = "range"
    /\ tpc' = "loop"
    /\ must' = alertChannels
    /\ may' = {}
    /\ UNCHANGED <<now, sharedVars, crashed, sensors, level, subscribedAtStart,
                   cur, delivery, memVars, handlers, pureVars>>

\* the iterator produces the next key: an entry that was there when the
\* range began and still is, or, possibly, one created since
AlertRangeNext ==
    /\ ~crashed
    /\ tpc = "loop"
    /\ \E c \in must \cup may :
         /\ cur' = c
         /\ must' = must \ {c}
         /\ may' = may \ {c}
    /\ tpc' = "send"
    /\ UNCHANGED <<now, sharedVars, crashed, sensors, level, subscribedAtStart,
                   delivery, memVars, handlers, pureVars>>

\* the outcome of one more delivery to a channel
Delivered(old, err) ==
    IF old # "none" THEN "many" ELSE IF err THEN "failed" ELSE "ok"

\* ChannelMessageSendEmbed(channelID, embed) and the handling of its result
AlertSend ==
    /\ ~crashed
    /\ tpc = "send"
    /\ \E err \in BOOLEAN :
         /\ delivery' = [delivery EXCEPT ![cur] = Delivered(@, err)]
         /\ IF err
            THEN /\ alertChannels' = alertChannels \ {cur}
                 /\ must' = must \ {cur}
                 /\ may' = may \ {cur}
            ELSE UNCHANGED <<alertChannels, must, may>>
    /\ tpc' = "loop"
    /\ cur' = NoChannel
    /\ UNCHANGED <<now, lastAlert, lastMemoryData, crashed, sensors, level,
                   subscribedAtStart, memVars, handlers, pureVars>>

\* a slip: lastAlert is set only if a destination is left
AlertFinishIfDelivered ==
    /\ ~crashed
    /\ tpc = "loop"
    /\ must = {}
    /\ lastAlert' = IF alertChannels # {} THEN now ELSE lastAlert
    /\ AlertReturn
    /\ UNCHANGED <<now, alertChannels, lastMemoryData, crashed, memVars,
                   handlers, pureVars>>

\* the iterator is exhausted (entries created during the range may be
\* skipped): sm.lastAlert = time.Now()
AlertFinish ==
    /\ ~crashed
    /\ tpc = "loop"
    /\ must = {}
    /\ lastAlert' = now
    /\ AlertReturn
    /\ UNCHANGED <<now, alertChannels, lastMemoryData, crashed, memVars,
                   handlers, pureVars>>

(***************************************************************************)
(* startMemoryMonitoring                                                   *)
(***************************************************************************)
\* the ticker fires; GetTopProcesses fails, yields nothing, or yields a list
MemGetTopProcesses ==
    /\ ~crashed
    /\ mpc = "wait"
    /\ \E err \in BOOLEAN, list \in {<<>>} \cup Snapshots :
         IF err \/ Len(list) = 0
         THEN /\ mpc' = "skip"
              /\ UNCHANGED processes
         ELSE /\ mpc' = "store"
              /\ processes' = list
    /\ UNCHANGED <<now, sharedVars, crashed, tempVars, handlers, pureVars>>

\* a slip: a cycle that failed forgets the snapshot of the cycle before
MemContinueCleared ==
    /\ ~crashed
    /\ mpc = "skip"
    /\ mpc' = "wait"
    /\ lastMemoryData' = <<>>
    /\ UNCHANGED <<now, alertChannels, lastAlert, crashed, tempVars, processes,
                   handlers, pureVars>>

\* continue, after the error or the warning is logged: back to the ticker
MemContinue ==
    /\ ~crashed
    /\ mpc = "skip"
    /\ mpc' = "wait"
    /\ UNCHANGED <<now, sharedVars, crashed, tempVars, processes, handlers,
                   pureVars>>

\* sm.lastMemoryData = processes
MemStore ==
    /\ ~crashed
    /\ mpc = "store"
    /\ lastMemoryData' = processes
    /\ mpc' = "wait"
    /\ processes' = <<>>
    /\ UNCHANGED <<now, alertChannels, lastAlert, crashed, tempVars, handlers,
                   pureVars>>

(***************************************************************************)
(* onInteraction: handleAlertsCommand, handleStatusCommand                 *)
(***************************************************************************)
\* an /alerts interaction arrives and its goroutine reaches the map write
AlertsBegin ==
    /\ ~crashed
    /\ InFlight < MaxInFlight
    /\ \E h \in AlertsHandlers : handlers' = [handlers EXCEPT ![h] = @ + 1]
    /\ UNCHANGED <<now, sharedVars, crashed, tempVars, memVars, pureVars>>

\* sm.alertChannels[channelID] = true  /  delete(sm.alertChannels, channelID),
\* then the response: the request is complete
AlertsWrite ==
    /\ ~crashed
    /\ \E h \in AlertsHandlers :
         /\ handlers[h] > 0
         /\ IF h.action = "enable"
            THEN /\ alertChannels' = alertChannels \cup {h.ch}
                 /\ may' = IF tpc \in {"loop", "send"}
                              /\ h.ch \notin alertChannels
                           THEN may \cup {h.ch} ELSE may
                 /\ UNCHANGED must
            ELSE /\ alertChannels' = alertChannels \ {h.ch}
                 /\ must' = must \ {h.ch}
                 /\ may' = may \ {h.ch}
         /\ handlers' = [handlers EXCEPT ![h] = @ - 1]
    /\ UNCHANGED <<now, lastAlert, lastMemoryData, crashed, tpc, sensors,
                   level, subscribedAtStart, cur, delivery, memVars, pureVars>>

\* a /status interaction arrives and its goroutine reaches the reads of
\* alertChannels, lastAlert and lastMemoryData
StatusBegin ==
    /\ ~crashed
    /\ InFlight < MaxInFlight
    /\ handlers' = [handlers EXCEPT ![StatusHandler] = @ + 1]
    /\ UNCHANGED <<now, sharedVars, crashed, tempVars, memVars, pureVars>>

\* a slip: the status page consumes the cached snapshot
StatusRespondTake ==
    /\ ~crashed
    /\ Reading > 0
    /\ handlers' = [handlers EXCEPT ![StatusHandler] = @ - 1]
    /\ lastMemoryData' = <<>>
    /\ UNCHANGED <<now, alertChannels, lastAlert, crashed, tempVars, memVars,
                   pureVars>>

\* the status page is built from the three reads and sent
StatusRespond ==
    /\ ~crashed
    /\ Reading > 0
    /\ handlers' = [handlers EXCEPT ![StatusHandler] = @ - 1]
    /\ UNCHANGED <<now, sharedVars, crashed, tempVars, memVars, pureVars>>

\* a /temp, /ports or /memory interaction arrives; its goroutine sends the
\* deferred response and calls the monitor
OnDemandBegin ==
    /\ ~crashed
    /\ InFlight < MaxInFlight
    /\ handlers' = [handlers EXCEPT ![OnDemandHandler] = @ + 1]
    /\ UNCHANGED <<now, sharedVars, crashed, tempVars, memVars, pureVars>>

\* a slip: a followup that fails unsubscribes the channel, as a failed alert
\* delivery does
OnDemandRespondDropping ==
    /\ ~crashed
    /\ handlers[OnDemandHandler] > 0
    /\ handlers' = [handlers EXCEPT ![OnDemandHandler] = @ - 1]
    /\ \E c \in Channels : alertChannels' = alertChannels \ {c}
    /\ UNCHANGED <<now, lastAlert, lastMemoryData, crashed, tempVars, memVars,
                   pureVars>>

\* the answer is sent as a followup message and the goroutine ends
OnDemandRespond ==
    /\ ~crashed
    /\ handlers[OnDemandHandler] > 0
    /\ handlers' = [handlers EXCEPT ![OnDemandHandler] = @ - 1]
    /\ UNCHANGED <<now, sharedVars, crashed, tempVars, memVars, pureVars>>

(***************************************************************************)
(* The program.                                                            *)
(***************************************************************************)
NoInput == <<>>

\* The SystemMonitor as New leaves it, and both poll tasks before their
\* first tick.
SystemInit ==
    /\ now = BootTime
    /\ alertChannels = {}
    /\ lastAlert = ZeroTime
    /\ lastMemoryData = <<>>
    /\ crashed = FALSE
    /\ tpc = "wait"
    /\ sensors = <<>>
    /\ level = "none"
    /\ subscribedAtStart = {}
    /\ must = {}
    /\ may = {}
    /\ cur = NoChannel
    /\ delivery = NoDelivery
    /\ mpc = "wait"
    /\ processes = <<>>
    /\ handlers = NoHandlers

Init ==
    /\ SystemInit
    /\ input = NoInput
    /\ result = NoInput
    /\ stage = "none"

\* the clock, the temperature poll with its alert dispatch, and /alerts
AlertNext ==
    \/ Tick
    \/ RuntimeFatal
    \/ TempGetSensors
    \/ TempContinue
    \/ TempEvaluate
    \/ AlertCheckCooldown
    \/ AlertCheckChannels
    \/ AlertRangeStart
    \/ AlertRangeNext
    \/ AlertSend
    \/ AlertFinish
    \/ AlertsBegin
    \/ AlertsWrite

\* the whole bot: the memory poll and /status besides
Next ==
    \/ AlertNext
    \/ MemGetTopProcesses
    \/ MemContinue
    \/ MemStore
    \/ StatusBegin
    \/ StatusRespond

Spec == Init /\ [][Next]_vars

\* the bot with the three report commands as well: every goroutine there is
BotNext ==
    \/ Next
    \/ OnDemandBegin
    \/ OnDemandRespond

BotSpec == Init /\ [][BotNext]_vars

(***************************************************************************)
(* The alert coordinator under fair scheduling, with a clock that does not *)
(* stop: at the horizon the origin of time moves instead of the clock,     *)
(* which keeps every difference now - lastAlert below the cooldown exact.  *)
(* The memory poll and /status write none of the variables the dispatch    *)
(* reads (alertChannels, lastAlert), so they are left to Spec.             *)
(***************************************************************************)
ClockShift ==
    /\ ~crashed
    /\ now = MaxTime
    /\ lastAlert # ZeroTime
    /\ now - lastAlert < AlertCooldown
    /\ lastAlert' = lastAlert - 1
    /\ UNCHANGED <<now, alertChannels, lastMemoryData, crashed, tempVars,
                   memVars, handlers, pureVars>>

TempTask ==
    \/ TempGetSensors
    \/ TempContinue
    \/ TempEvaluate
    \/ AlertCheckCooldown
    \/ AlertCheckChannels
    \/ AlertRangeStart
    \/ AlertRangeNext
    \/ AlertSend
    \/ AlertFinish

LiveNext ==
    \/ AlertNext
    \/ ClockShift

\* the iterator reaches an entry that has been there since the range began
RangeProgress == AlertRangeNext /\ cur' \in must

\* time passes, the temperature task is scheduled, and a range over the
\* finite map reaches every entry that stays in it and comes to its end
LiveSpec ==
    /\ Init
    /\ [][LiveNext]_vars
    /\ WF_vars(Tick \/ ClockShift)
    /\ WF_vars(TempTask)
    /\ SF_vars(RangeProgress)
    /\ SF_vars(AlertFinish)

TypeOK ==
    /\ now \in BootTime..MaxTime
    /\ alertChannels \subseteq Channels
    /\ lastAlert \in {ZeroTime} \cup (BootTime..MaxTime)
    /\ crashed \in BOOLEAN
    /\ tpc \in {"wait", "skip", "eval", "cooldown", "channels", "range",
               "loop", "send"}
    /\ mpc \in {"wait", "skip", "store"}
    /\ stage \in {"none", "start", "monitor", "builder", "once", "twice",
                 "sorted", "chunked", "built", "rebuilt", "parsed",
                 "listed", "reported", "deferred", "returned", "sensed",
                 "resensed", "alerted", "shown"}

(***************************************************************************)
(* The classifier on its own: getTemperatureStatus of the monitor and of   *)
(* the embed builder, applied to one reading under one pair of thresholds. *)
(* Temperatures and thresholds are float64 in the source; the comparisons  *)
(* are the only operations on them, so whole degrees stand for them.       *)
(***************************************************************************)
\* thresholds a TemperatureMonitor or a Builder can be constructed with
ClassifyThresholds == {60, 70, 80}
\* readings, on both sides of and on every threshold
ClassifyTemps == {-5, 0, 59, 60, 65, 69, 70, 72, 79, 80, 85}

ClassifyInit ==
    /\ SystemInit
    /\ input \in [critical : ClassifyThresholds, warning : ClassifyThresholds,
                  temp : ClassifyTemps]
    /\ result = NoInput
    /\ stage = "start"

\* tm.getTemperatureStatus(temperature), as the parser calls it
ClassifyMonitor ==
    /\ stage = "start"
    /\ result' = <<getTemperatureStatus(input.critical, input.warning,
                                        input.temp)>>
    /\ stage' = "monitor"
    /\ UNCHANGED <<now, sharedVars, crashed, tempVars, memVars, handlers,
                   input>>

\* b.getTemperatureStatus(temp), as the embed builder calls it
ClassifyBuilder ==
    /\ stage = "monitor"
    /\ result' = Append(result,
                        BuilderGetTemperatureStatus(input.critical,
                                                    input.warning, input.temp))
    /\ stage' = "builder"
    /\ UNCHANGED <<now, sharedVars, crashed, tempVars, memVars, handlers,
                   input>>

ClassifyNext ==
    \/ ClassifyMonitor
    \/ ClassifyBuilder

ClassifySpec == ClassifyInit /\ [][ClassifyNext]_vars

(***************************************************************************)
(* Strings.  A Go string is a sequence of one-character strings here, so   *)
(* that TrimSpace, ToUpper, Split and Sscanf are computed on its           *)
(* characters.                                                             *)
(***************************************************************************)
LowerLetters == <<"a", "b", "c", "d", "e", "f", "g", "h", "i", "j", "k", "l",
                  "m", "n", "o", "p", "q", "r", "s", "t", "u", "v", "w", "x",
                  "y", "z">>
UpperLetters == <<"A", "B", "C", "D", "E", "F", "G", "H", "I", "J", "K", "L",
                  "M", "N", "O", "P", "Q", "R", "S", "T", "U", "V", "W", "X",
                  "Y", "Z">>
Digits == <<"0", "1", "2", "3", "4", "5", "6", "7", "8", "9">>
WhiteSpace == {" ", "\t", "\n", "\r"}

IsDigit(ch) == \E d \in 1..Len(Digits) : Digits[d] = ch
DigitValue(ch) == (CHOOSE d \in 1..Len(Digits) : Digits[d] = ch) - 1

\* strings.ToUpper
ToUpperChar(ch) ==
    IF \E l \in 1..Len(LowerLetters) : LowerLetters[l] = ch
    THEN UpperLetters[CHOOSE l \in 1..Len(LowerLetters) : LowerLetters[l] = ch]
    ELSE ch
ToUpper(str) == [i \in 1..Len(str) |-> ToUpperChar(str[i])]

\* strings.TrimSpace
RECURSIVE TrimLeft(_)
TrimLeft(str) ==
    IF Len(str) > 0 /\ Head(str) \in WhiteSpace THEN TrimLeft(Tail(str))
    ELSE str
RECURSIVE TrimRight(_)
TrimRight(str) ==
    IF Len(str) > 0 /\ str[Len(str)] \in WhiteSpace
    THEN TrimRight(SubSeq(str, 1, Len(str) - 1))
    ELSE str
TrimSpace(str) == TrimRight(TrimLeft(str))

\* addressParts[len(addressParts)-1] of strings.Split(address, ":")
RECURSIVE LastPart(_, _)
LastPart(str, from) ==
    IF from > Len(str) THEN SubSeq(str, 1, 0)
    ELSE IF \E i \in from..Len(str) : str[i] = ":"
         THEN LastPart(str, (CHOOSE i \in from..Len(str) :
                               /\ str[i] = ":"
                               /\ \A k \in from..(i - 1) : str[k] # ":") + 1)
         ELSE SubSeq(str, from, Len(str))

\* The digits fmt.Sscanf(str, "%d", &n) reads: leading space is skipped, a
\* sign is accepted, then the longest run of digits.
RECURSIVE DigitRun(_)
DigitRun(str) ==
    IF Len(str) > 0 /\ IsDigit(Head(str))
    THEN <<Head(str)>> \o DigitRun(Tail(str))
    ELSE <<>>
RECURSIVE DecimalValue(_)
DecimalValue(digits) ==
    IF Len(digits) = 0 THEN 0
    ELSE 10 * DecimalValue(SubSeq(digits, 1, Len(digits) - 1))
           + DigitValue(digits[Len(digits)])

\* strings.ToLower
ToLowerChar(ch) ==
    IF \E l \in 1..Len(UpperLetters) : UpperLetters[l] = ch
    THEN LowerLetters[CHOOSE l \in 1..Len(UpperLetters) : UpperLetters[l] = ch]
    ELSE ch
ToLower(str) == [i \in 1..Len(str) |-> ToLowerChar(str[i])]

(***************************************************************************)
(* The port deduplicator on its own: deduplicatePorts applied to a port    *)
(* list as parseNetworkOutput builds it, and then to its own result.       *)
(***************************************************************************)
\* local addresses: two that differ only in the host, one whose port is
\* numerically smaller and textually larger, one whose port is no number
Addresses == {<<"*", ":", "2", "2">>,
              <<"[", ":", ":", "]", ":", "2", "2">>,
              <<"*", ":", "9">>,
              <<"*", ":", "*">>}
\* processInfo: empty without a users: column, else what parseProcessInfo
\* returns (copied, never inspected, by the deduplicator)
ProcessNames == {"", "SSH Server (PID: 100)"}

\* the NetworkPort parseNetworkOutput appends for one line of ss
NetworkPort(netid, address, processInfo) ==
    [Protocol    |-> ToUpper(ToLower(netid)),
     Address     |-> address,
     Port        |-> LastPart(address, 1),
     State       |-> IF netid = <<"t", "c", "p">> THEN "LISTEN" ELSE "UNCONN",
     ProcessName |-> processInfo]

\* the lines ss can print: tcp listeners with or without a users: column,
\* udp sockets without one
PortPool ==
    {NetworkPort(<<"t", "c", "p">>, a, p) : a \in Addresses, p \in ProcessNames}
        \cup {NetworkPort(<<"u", "d", "p">>, a, "") : a \in Addresses}
PortLists == UNION {[1..n -> PortPool] : n \in 0..MaxPorts}

\* return 99999 // Put unparseable ports at the end
UnparsablePort == 99999

\* a slip: an unparsable port is left at the zero value
parsePortNumberZero(portStr) ==
    LET text   == TrimLeft(TrimSpace(portStr))
        signed == Len(text) > 0 /\ Head(text) \in {"+", "-"}
        run    == DigitRun(IF signed THEN Tail(text) ELSE text)
    IN  IF Len(run) = 0 THEN 0
        ELSE IF signed /\ Head(text) = "-" THEN 0 - DecimalValue(run)
        ELSE DecimalValue(run)

\* Builder.parsePortNumber
parsePortNumber(portStr) ==
    LET text   == TrimLeft(TrimSpace(portStr))
        signed == Len(text) > 0 /\ Head(text) \in {"+", "-"}
        run    == DigitRun(IF signed THEN Tail(text) ELSE text)
    IN  IF Len(run) = 0 THEN UnparsablePort
        ELSE IF signed /\ Head(text) = "-" THEN 0 - DecimalValue(run)
        ELSE DecimalValue(run)

\* key := fmt.Sprintf("%s|%s|%s", normalizedProto, normalizedAddr, normalizedPort)
PortKey(port) ==
    ToUpper(TrimSpace(port.Protocol)) \o <<"|">> \o TrimSpace(port.Address)
        \o <<"|">> \o TrimSpace(port.Port)

\* a later entry replaces the one seen before
RememberLast(seen, key, port) ==
    [k \in DOMAIN seen \cup {key} |-> IF k = key THEN port ELSE seen[k]]

\* if _, exists := seen[key]; !exists { seen[key] = port }
Remember(seen, key, port) ==
    IF key \in DOMAIN seen THEN seen ELSE seen @@ (key :> port)

\* a slip: the loop stops one entry early
RECURSIVE ScanPortsShort(_, _, _)
ScanPortsShort(ports, i, seen) ==
    IF i >= Len(ports) THEN seen
    ELSE ScanPortsShort(ports, i + 1,
                        Remember(seen, PortKey(ports[i]), ports[i]))

\* the first loop of deduplicatePorts, from entry i on
RECURSIVE ScanPorts(_, _, _)
ScanPorts(ports, i, seen) ==
    IF i > Len(ports) THEN seen
    ELSE ScanPorts(ports, i + 1, Remember(seen, PortKey(ports[i]), ports[i]))

\* the orders in which a range over a map with these keys can produce them
KeyOrders(keys) ==
    {order \in [1..Cardinality(keys) -> keys] :
        \A i, j \in 1..Cardinality(keys) : order[i] = order[j] => i = j}

\* the less function handed to sort.Slice
PortLess(a, b) ==
    IF a.Protocol # b.Protocol THEN a.Protocol = <<"T", "C", "P">>
    ELSE parsePortNumber(a.Port) < parsePortNumber(b.Port)

\* sort.Slice on at most 12 elements is an insertion sort: element i moves
\* down while it is less than its predecessor
RECURSIVE MoveDown(_, _)
MoveDown(data, j) ==
    IF j > 1 /\ PortLess(data[j], data[j - 1])
    THEN MoveDown([data EXCEPT ![j] = data[j - 1], ![j - 1] = data[j]], j - 1)
    ELSE data
RECURSIVE InsertionSort(_, _)
InsertionSort(data, i) ==
    IF i > Len(data) THEN data
    ELSE InsertionSort(MoveDown(data, i), i + 1)
SortSlice(data) == InsertionSort(data, 2)

\* Builder.deduplicatePorts: the lists a call can return
deduplicatePorts(ports) ==
    IF Len(ports) = 0 THEN {ports}
    ELSE LET seen == ScanPorts(ports, 1, <<>>)
         IN  {SortSlice([i \in 1..Cardinality(DOMAIN seen) |-> seen[order[i]]]) :
                 order \in KeyOrders(DOMAIN seen)}

DedupInit ==
    /\ SystemInit
    /\ input \in PortLists
    /\ result = NoInput
    /\ stage = "start"

\* uniquePorts := b.deduplicatePorts(ports)
Dedup ==
    /\ stage = "start"
    /\ \E unique \in deduplicatePorts(input) : result' = <<unique>>
    /\ stage' = "once"
    /\ UNCHANGED <<now, sharedVars, crashed, tempVars, memVars, handlers,
                   input>>

\* deduplicatePorts applied to the list it returned
DedupAgain ==
    /\ stage = "once"
    /\ \E unique \in deduplicatePorts(result[1]) :
           result' = Append(result, unique)
    /\ stage' = "twice"
    /\ UNCHANGED <<now, sharedVars, crashed, tempVars, memVars, handlers,
                   input>>

\* the sort of deduplicatePorts applied to the list it returned
SortAgain ==
    /\ stage = "once"
    /\ result' = Append(result, SortSlice(result[1]))
    /\ stage' = "sorted"
    /\ UNCHANGED <<now, sharedVars, crashed, tempVars, memVars, handlers,
                   input>>

DedupNext ==
    \/ Dedup
    \/ DedupAgain
    \/ SortAgain

DedupSpec == DedupInit /\ [][DedupNext]_vars

(***************************************************************************)
(* The port report: chunkPorts and BuildPorts.  An embed is its title, the *)
(* number of removed duplicates its description reports, and its fields;   *)
(* a field is its kind, the protocol and the numbers its name or text      *)
(* formats, and the body of a port page as a string.                       *)
(***************************************************************************)
maxPortsPerField == 6
maxFieldValueLength == 1000
maxTotalFields == 12
\* currentChunk.Len()+len(portEntry) > (maxLength+200)
LengthSlack == 200

\* the names a process name is cut down to: the text before " (PID:", then
\* the entry of serviceAliases
serviceAliases == ("SSH Server (PID: 100)" :> <<"S", "S", "H">>)

\* Builder.shortenProcessName
shortenProcessName(processName) ==
    IF processName = "" \/ processName = "Unknown Process"
    THEN <<"U", "n", "k", "n", "o", "w", "n">>
    ELSE serviceAliases[processName]

\* Builder.formatAddress
formatAddress(address) == TrimSpace(address)

\* the one-byte quote mark around the address of an entry (a backquote in the
\* source, an apostrophe here)
QuoteMark == "'"

\* portEntry := fmt.Sprintf("%s %s\n", quoted address, processName)
portEntry(port) ==
    <<QuoteMark>> \o formatAddress(port.Address) \o <<QuoteMark, " ">>
        \o shortenProcessName(port.ProcessName) \o <<"\n">>

\* the last entry the loop of chunkPorts writes to the chunk that holds the
\* entries from..j, length bytes long: the next entry closes the chunk when
\* currentCount >= maxPorts or the length with it exceeds maxLength+200
RECURSIVE pageEnd(_, _, _, _, _, _)
pageEnd(ports, maxPorts, maxLength, j, length, currentCount) ==
    IF j = Len(ports) THEN j
    ELSE IF \/ currentCount >= maxPorts
            \/ length + Len(portEntry(ports[j + 1])) > maxLength + LengthSlack
    THEN j
    ELSE pageEnd(ports, maxPorts, maxLength, j + 1,
                 length + Len(portEntry(ports[j + 1])), currentCount + 1)

\* currentChunk after the entries from..to were written to it
RECURSIVE chunkText(_, _, _)
chunkText(ports, from, to) ==
    IF from > to THEN <<>>
    ELSE chunkText(ports, from, to - 1) \o portEntry(ports[to])

\* the loop of chunkPorts from entry i on, a chunk at a time: an entry that
\* finds the chunk empty is written whatever its length
RECURSIVE chunkLoop(_, _, _, _, _)
chunkLoop(ports, maxPorts, maxLength, i, chunks) ==
    IF i > Len(ports) THEN chunks
    ELSE LET last == pageEnd(ports, maxPorts, maxLength, i,
                             Len(portEntry(ports[i])), 1)
         IN  chunkLoop(ports, maxPorts, maxLength, last + 1,
                       Append(chunks, TrimSpace(chunkText(ports, i, last))))

\* Builder.chunkPorts
chunkPorts(ports, maxPorts, maxLength) ==
    IF Len(ports) = 0
    THEN << <<"N", "o", " ", "p", "o", "r", "t", "s", " ", "f", "o", "u", "n",
              "d">> >>
    ELSE chunkLoop(ports, maxPorts, maxLength, 1, <<>>)

\* the text %d prints for a number that is not negative
RECURSIVE Decimal(_)
Decimal(n) ==
    IF n < 10 THEN <<Digits[n + 1]>>
    ELSE Decimal(n \div 10) \o <<Digits[(n % 10) + 1]>>

\* the list ss gives for ntcp tcp listeners on ports 1..ntcp followed by nudp
\* udp sockets on ports 1..nudp, all on the wildcard address
GeneratedPorts(ntcp, nudp) ==
    [k \in 1..(ntcp + nudp) |->
        IF k <= ntcp
        THEN NetworkPort(<<"t", "c", "p">>, <<"*", ":">> \o Decimal(k), "")
        ELSE NetworkPort(<<"u", "d", "p">>,
                         <<"*", ":">> \o Decimal(k - ntcp), "")]

\* a list is in the order sort.Slice leaves it, with no two entries that
\* compare equal
StrictlyAscending(ports) ==
    \A k \in 1..(Len(ports) - 1) : PortLess(ports[k], ports[k + 1])

\* uniquePorts := b.deduplicatePorts(ports): the lists the call can return.
\* A list longer than MaxPorts is only ever a generated one, which is strictly
\* ascending: no entry is dropped and every order of the map sorts to it.
uniquePortsOf(ports) ==
    IF Len(ports) > MaxPorts /\ StrictlyAscending(ports) THEN {ports}
    ELSE deduplicatePorts(ports)

\* what uniquePortsOf relies on, checked on the short lists under DedupSpec:
\* deduplicatePorts returns a strictly ascending list as it is
AscendingKept ==
    (stage = "once" /\ StrictlyAscending(input)) => result[1] = input

\* wellKnownPorts, for the ports below 1000
wellKnownPorts ==
    (<<"2", "2">> :> "SSH") @@ (<<"8", "0">> :> "HTTP")
        @@ (<<"4", "4", "3">> :> "HTTPS")
\* if len(services) >= 6 { break }
maxNotableServices == 6

\* Builder.getNotableServices: the (service, port) pairs the summary joins
RECURSIVE notableLoop(_, _, _)
notableLoop(ports, i, services) ==
    IF i > Len(ports) \/ Len(services) >= maxNotableServices THEN services
    ELSE LET port == ports[i].Port
             seen == {services[k][1] : k \in 1..Len(services)}
         IN  IF port \in DOMAIN wellKnownPorts /\ wellKnownPorts[port] \notin seen
             THEN notableLoop(ports, i + 1,
                      Append(services, <<wellKnownPorts[port], port>>))
             ELSE notableLoop(ports, i + 1, services)
getNotableServices(ports) == notableLoop(ports, 1, <<>>)

\* the fields of a report
PortsField(proto, numbers, chunk) ==
    [kind |-> "ports", proto |-> proto, numbers |-> numbers, Value |-> chunk,
     services |-> <<>>]
TruncatedField(proto, shown, total) ==
    [kind |-> "truncated", proto |-> proto, numbers |-> <<shown, total>>,
     Value |-> <<>>, services |-> <<>>]
SummaryField(original, unique, tcp, udp, services) ==
    [kind |-> "summary", proto |-> "", numbers |-> <<original, unique, tcp, udp>>,
     Value |-> <<>>, services |-> services]

\* fieldCount: the port pages appended so far
FieldCount(fields) ==
    Cardinality({k \in 1..Len(fields) : fields[k].kind = "ports"})

\* for i, chunk := range chunks, from the i-th chunk (counted from 0) on
RECURSIVE sectionLoop(_, _, _, _, _)
sectionLoop(proto, total, chunks, i, fields) ==
    IF i >= Len(chunks) THEN fields
    ELSE IF FieldCount(fields) >= maxTotalFields
    THEN Append(fields, TruncatedField(proto, i, Len(chunks)))
    ELSE sectionLoop(proto, total, chunks, i + 1,
             Append(fields,
                    PortsField(proto,
                               IF Len(chunks) > 1 THEN <<i + 1, Len(chunks)>>
                               ELSE <<total>>,
                               chunks[i + 1])))

\* one protocol section of BuildPorts
portSection(proto, ports, fields) ==
    IF Len(ports) > 0 /\ FieldCount(fields) < maxTotalFields
    THEN sectionLoop(proto, Len(ports),
                     chunkPorts(ports, maxPortsPerField, maxFieldValueLength),
                     0, fields)
    ELSE fields

\* a slip: the summary is left out of a report that is already full
summaryIfRoom(fields, summary) ==
    IF FieldCount(fields) < maxTotalFields THEN Append(fields, summary)
    ELSE fields

\* embed.Fields = append(embed.Fields, the summary field)
appendSummary(fields, summary) == Append(fields, summary)

\* Builder.BuildPorts, once deduplicatePorts has returned uniquePorts
buildReport(ports, showAll, uniquePorts) ==
    LET tcpPorts == SelectSeq(uniquePorts,
                        LAMBDA p : ToUpper(p.Protocol) = <<"T", "C", "P">>)
        udpPorts == SelectSeq(uniquePorts,
                        LAMBDA p : ToUpper(p.Protocol) = <<"U", "D", "P">>)
        pages    == portSection("UDP", udpPorts,
                        portSection("TCP", tcpPorts, <<>>))
    IN  [Title   |-> IF showAll THEN "All Network Connections"
                     ELSE "Network Ports",
         removed |-> Len(ports) - Len(uniquePorts),
         Fields  |-> appendSummary(pages,
                         SummaryField(Len(ports), Len(uniquePorts),
                                      Len(tcpPorts), Len(udpPorts),
                                      getNotableServices(uniquePorts)))]

\* Builder.BuildPorts: the embeds a call can return
BuildPortsOf(ports, showAll) ==
    {buildReport(ports, showAll, unique) : unique \in uniquePortsOf(ports)}

\* chunkPorts on its own: one list of entries under one byte budget
Budgets == {15, 40, maxFieldValueLength}
ShortLists == UNION {[1..n -> PortPool] : n \in 0..MaxRenderPorts}

\* the short lists, and lists long enough to fill pages by count
ChunkLists ==
    ShortLists \cup {GeneratedPorts(ntcp, 0) : ntcp \in 1..MaxChunkPorts}

ChunkInit ==
    /\ SystemInit
    /\ input \in [ports : ChunkLists, maxLength : Budgets]
    /\ result = NoInput
    /\ stage = "start"

\* chunks := b.chunkPorts(ports, maxPortsPerField, maxLength)
Chunk ==
    /\ stage = "start"
    /\ result' = chunkPorts(input.ports, maxPortsPerField, input.maxLength)
    /\ stage' = "chunked"
    /\ UNCHANGED <<now, sharedVars, crashed, tempVars, memVars, handlers,
                   input>>

ChunkNext == Chunk

ChunkSpec == ChunkInit /\ [][ChunkNext]_vars

\* BuildPorts on its own: the lists GetPorts can hand it
RenderLists ==
    ShortLists
        \cup {GeneratedPorts(ntcp, nudp) : ntcp \in 0..MaxTcp, nudp \in 0..MaxUdp}

RenderInit ==
    /\ SystemInit
    /\ input \in [ports : RenderLists, showAll : BOOLEAN]
    /\ result = NoInput
    /\ stage = "start"

\* embed := b.BuildPorts(ports, showAll)
BuildPorts ==
    /\ stage = "start"
    /\ \E embed \in BuildPortsOf(input.ports, input.showAll) :
           result' = <<embed>>
    /\ stage' = "built"
    /\ UNCHANGED <<now, sharedVars, crashed, tempVars, memVars, handlers,
                   input>>

\* a second call of BuildPorts with the same list
BuildPortsAgain ==
    /\ stage = "built"
    /\ \E embed \in BuildPortsOf(input.ports, input.showAll) :
           result' = Append(result, embed)
    /\ stage' = "rebuilt"
    /\ UNCHANGED <<now, sharedVars, crashed, tempVars, memVars, handlers,
                   input>>

RenderNext ==
    \/ BuildPorts
    \/ BuildPortsAgain

RenderSpec == RenderInit /\ [][RenderNext]_vars

(***************************************************************************)
(* The process table: parseTopOutput.  A line under the header is blank,   *)
(* or fails the process pattern, or matches it with the texts of its PID,  *)
(* %MEM and %CPU columns.  top prints the two shares with one decimal; a   *)
(* float64 share is held in tenths.                                        *)
(***************************************************************************)
\* for ...; foundProcesses < 15
maxFoundProcesses == 15
\* if len(processes) > 10 { processes = processes[:10] }
maxTopProcesses == 10
\* the longest slice pdqsort, behind sort.Slice, hands to insertionSort
maxInsertion == 12

\* strconv.ParseFloat of a text the pattern [\d.]+ matched, with at most one
\* decimal: an error unless it has one dot at most and a digit
ParseFloat(text) ==
    LET dots   == {k \in 1..Len(text) : text[k] = "."}
        whole  == DigitRun(text)
        tenths == IF dots = {} THEN <<>>
                  ELSE SubSeq(text, Len(whole) + 2, Len(text))
    IN  IF Cardinality(dots) > 1 \/ Len(whole) + Len(tenths) = 0
        THEN [err |-> TRUE, value |-> 0]
        ELSE [err |-> FALSE,
              value |-> 10 * DecimalValue(whole) + DecimalValue(tenths)]

BlankLine == [kind |-> "blank", PID |-> <<>>, mem |-> <<>>, cpu |-> <<>>]
OtherLine == [kind |-> "other", PID |-> <<>>, mem |-> <<>>, cpu |-> <<>>]
ProcessLine(pid, mem, cpu) ==
    [kind |-> "process", PID |-> pid, mem |-> mem, cpu |-> cpu]

MemTexts == {<<"1", "2", ".", "4">>, <<"0", ".", "0">>, <<"3", ".", "1">>,
             <<"1", ".", "2", ".", "3">>}
CpuTexts == {<<"0", ".", "7">>, <<".">>}
LinePool ==
    {BlankLine, OtherLine}
        \cup {ProcessLine(<<"7">>, m, c) : m \in MemTexts, c \in CpuTexts}

\* the text of a share held in tenths
ShareText(tenths) == Decimal(tenths \div 10) \o <<".">> \o Decimal(tenths % 10)

\* a table of n process lines whose shares differ from each other unless
\* they are 0.0, in no order
GeneratedShare(k) == IF k % 4 = 0 THEN 0 ELSE (37 * k) % 101
GeneratedTable(n) ==
    [k \in 1..n |-> ProcessLine(Decimal(k), ShareText(GeneratedShare(k)),
                                <<"0", ".", "7">>)]

\* a table of 13 process lines, one more than an insertion sort takes, with
\* the share 0.1 on every line but line k, which has 0.2
TiedTable(k) ==
    [r \in 1..(maxInsertion + 1) |->
        ProcessLine(Decimal(r), ShareText(IF r = k THEN 2 ELSE 1),
                    <<"0", ".", "7">>)]

TopTables ==
    (UNION {[1..n -> LinePool] : n \in 0..MaxRows})
        \cup {GeneratedTable(n) : n \in 0..MaxTableRows}
        \cup {TiedTable(k) : k \in 1..(maxInsertion + 1)}

ProcessMemory(pid, memPct, cpuPct) ==
    [PID |-> pid, MemoryPercent |-> memPct, CPUPercent |-> cpuPct]

\* a slip: a process with no memory share is kept
skipProcessNever(memPct) == FALSE

\* if memPct == 0.0 { continue }
skipProcess(memPct) == memPct = 0

\* the loop over the lines under the header, from line i on
RECURSIVE parseLines(_, _, _)
parseLines(lines, i, found) ==
    IF i > Len(lines) \/ Len(found) >= maxFoundProcesses THEN found
    ELSE LET line   == lines[i]
             memPct == ParseFloat(line.mem)
             cpuPct == ParseFloat(line.cpu)
         IN  IF line.kind # "process" \/ memPct.err
                \/ skipProcess(memPct.value)
             THEN parseLines(lines, i + 1, found)
             ELSE parseLines(lines, i + 1,
                      Append(found,
                             ProcessMemory(line.PID, memPct.value,
                                           IF cpuPct.err THEN 0
                                           ELSE cpuPct.value)))

\* return processes[i].MemoryPercent > processes[j].MemoryPercent
ProcessLess(a, b) == a.MemoryPercent > b.MemoryPercent

\* insertionSort of package sort
RECURSIVE MoveProcessDown(_, _)
MoveProcessDown(data, j) ==
    IF j > 1 /\ ProcessLess(data[j], data[j - 1])
    THEN MoveProcessDown([data EXCEPT ![j] = data[j - 1], ![j - 1] = data[j]],
                         j - 1)
    ELSE data
RECURSIVE SortProcessesFrom(_, _)
SortProcessesFrom(data, i) ==
    IF i > Len(data) THEN data
    ELSE SortProcessesFrom(MoveProcessDown(data, i), i + 1)
insertionSort(data) == SortProcessesFrom(data, 2)

SwapProcesses(data, i, j) == [data EXCEPT ![i] = data[j], ![j] = data[i]]

\* order2: the two positions with the one that sorts first in front, and
\* whether they were exchanged
order2(data, a, b) ==
    IF ProcessLess(data[b], data[a]) THEN <<b, a, 1>> ELSE <<a, b, 0>>

\* choosePivot on a slice of 13..49 elements: the median of the elements at
\* the three quarters, and the number of exchanges it took to find it
choosePivot(data) ==
    LET quarter == Len(data) \div 4
        first   == order2(data, quarter + 1, 2 * quarter + 1)
        second  == order2(data, first[2], 3 * quarter + 1)
        third   == order2(data, first[1], second[1])
    IN  [pivot |-> third[2], swaps |-> first[3] + second[3] + third[3]]

\* partialInsertionSort on fewer than 50 elements: true, and nothing moved,
\* if the slice is in order
partialInsertionSort(data) ==
    \A i \in 2..Len(data) : ~ProcessLess(data[i], data[i - 1])

\* partition, with the pivot at the front: i runs up over what sorts before
\* the pivot, j down over what does not, and the two stopped are exchanged
RECURSIVE scanUp(_, _, _)
scanUp(data, i, j) ==
    IF i <= j /\ ProcessLess(data[i], data[1]) THEN scanUp(data, i + 1, j)
    ELSE i
RECURSIVE scanDown(_, _, _)
scanDown(data, i, j) ==
    IF i <= j /\ ~ProcessLess(data[j], data[1]) THEN scanDown(data, i, j - 1)
    ELSE j
RECURSIVE partitionFrom(_, _, _)
partitionFrom(data, i, j) ==
    LET up   == scanUp(data, i, j)
        down == scanDown(data, up, j)
    IN  IF up > down
        THEN [data |-> SwapProcesses(data, down, 1), mid |-> down]
        ELSE partitionFrom(SwapProcesses(data, up, down), up + 1, down - 1)
partition(data, pivot) ==
    partitionFrom(SwapProcesses(data, 1, pivot), 2, Len(data))

\* pdqsort on more than 12 elements: a slice found in order is left as it
\* is, any other is partitioned around the pivot and both sides are sorted.
\* The sides are sorted by insertion, which is what pdqsort does with a side
\* of at most 12 elements: always for 13 elements; a side of 13 or 14 occurs
\* here only in lists with no two equal shares, which every sort puts in the
\* same order.
pdqsort(data) ==
    LET chosen == choosePivot(data)
    IN  IF chosen.swaps = 0 /\ partialInsertionSort(data) THEN data
        ELSE LET parted == partition(data, chosen.pivot)
             IN  insertionSort(SubSeq(parted.data, 1, parted.mid - 1))
                     \o <<parted.data[parted.mid]>>
                     \o insertionSort(SubSeq(parted.data, parted.mid + 1,
                                              Len(data)))

\* a slip: the ranking is a stable sort
SortProcessesStable(data) == insertionSort(data)

\* sort.Slice(processes, less), which is pdqsort since Go 1.19
SortProcesses(data) ==
    IF Len(data) <= maxInsertion THEN insertionSort(data) ELSE pdqsort(data)

\* MemoryMonitor.parseTopOutput
parseTopOutput(table) ==
    IF ~table.header THEN [err |-> TRUE, top |-> <<>>]
    ELSE LET sorted == SortProcesses(parseLines(table.lines, 1, <<>>))
         IN  [err |-> FALSE,
              top |-> IF Len(sorted) > maxTopProcesses
                      THEN SubSeq(sorted, 1, maxTopProcesses)
                      ELSE sorted]

TopInit ==
    /\ SystemInit
    /\ input \in [header : BOOLEAN, lines : TopTables]
    /\ result = NoInput
    /\ stage = "start"

\* processes, parseErr := mm.parseTopOutput(string(output))
ParseTop ==
    /\ stage = "start"
    /\ result' = parseTopOutput(input)
    /\ stage' = "parsed"
    /\ UNCHANGED <<now, sharedVars, crashed, tempVars, memVars, handlers,
                   input>>

TopNext == ParseTop

TopSpec == TopInit /\ [][TopNext]_vars

(***************************************************************************)
(* The socket table: parseNetworkOutput, and deduplicatePorts applied to   *)
(* its list.  The output of ss is its lines, the header first; a line is   *)
(* the fields strings.Fields splits it into.                               *)
(***************************************************************************)
\* strings.Contains
Contains(str, sub) ==
    \E i \in 0..(Len(str) - Len(sub)) : SubSeq(str, i + 1, i + Len(sub)) = sub

Listen == <<"L", "I", "S", "T", "E", "N">>
Unconn == <<"U", "N", "C", "O", "N", "N">>
Estab == <<"E", "S", "T", "A", "B">>
UsersMark == <<"u", "s", "e", "r", "s", ":">>
\* users:(("sshd",pid=100,fd=3))
SshdUsers ==
    UsersMark \o <<"(", "(", "\"", "s", "s", "h", "d", "\"", ",", "p", "i",
                   "d", "=", "1", "0", "0", ",", "f", "d", "=", "3", ")", ")">>
AnyAddress22 == <<"0", ".", "0", ".", "0", ".", "0", ":", "2", "2">>
LoopAddress22 == <<"1", "2", "7", ".", "0", ".", "0", ".", "1", ":", "2", "2">>
AnyAddress68 == <<"0", ".", "0", ".", "0", ".", "0", ":", "6", "8">>
AnyPeer == <<"0", ".", "0", ".", "0", ".", "0", ":", "*">>
LoopPeer ==
    <<"1", "2", "7", ".", "0", ".", "0", ".", "1", ":", "5", "0", "0", "0">>

\* Netid State Recv-Q Send-Q Local Address:Port Peer Address:Port Process
HeaderLine ==
    << <<"N", "e", "t", "i", "d">>, <<"S", "t", "a", "t", "e">>,
       <<"R", "e", "c", "v", "-", "Q">>, <<"S", "e", "n", "d", "-", "Q">> >>
SocketLine(netid, state, local, peer) ==
    <<netid, state, <<"0">>, <<"0">>, local, peer>>
\* the lines of an output: blank, cut short, a message of four words, tcp
\* listeners with and without a users: column, a udp socket, a connection
SocketLines ==
    { <<>>,
      << <<"t", "c", "p">>, Estab, <<"0">> >>,
      << <<"c", "a", "n", "n", "o", "t">>, <<"o", "p", "e", "n">>,
         <<"n", "e", "t", "l", "i", "n", "k">>, <<"s", "o", "c", "k", "e", "t">> >>,
      SocketLine(<<"t", "c", "p">>, Listen, AnyAddress22, AnyPeer),
      SocketLine(<<"t", "c", "p">>, Listen, LoopAddress22, AnyPeer),
      Append(SocketLine(<<"t", "c", "p">>, Listen, AnyAddress22, AnyPeer),
             SshdUsers),
      SocketLine(<<"u", "d", "p">>, Unconn, AnyAddress68, AnyPeer),
      SocketLine(<<"t", "c", "p">>, Estab, LoopAddress22, LoopPeer) }
SocketOutputs ==
    {<<HeaderLine>> \o data :
        data \in UNION {[1..n -> SocketLines] : n \in 0..MaxLines}}

\* NetworkMonitor.parseProcessInfo, of the users: columns above
parseProcessInfo(processField) ==
    IF processField = SshdUsers THEN "SSH Server (PID: 100)"
    ELSE "Unknown Process"

\* a slip: no line is filtered out
dropLineNever(state, showAll) == FALSE

\* if !showAll && !Contains(state, "LISTEN") && !Contains(state, "UNCONN")
dropLine(state, showAll) ==
    ~showAll /\ ~Contains(state, Listen) /\ ~Contains(state, Unconn)

\* the body of the loop of parseNetworkOutput for a line that is neither the
\* header nor blank: the entries it appends
parseLine(fields, showAll) ==
    IF Len(fields) < 4 THEN <<>>
    ELSE LET protocol    == ToLower(fields[1])
             state       == IF Len(fields) >= 5 THEN fields[2] ELSE <<>>
             address     == IF /\ Len(fields) >= 5
                               /\ \/ Contains(fields[2], Listen)
                                  \/ Contains(fields[2], Unconn)
                            THEN fields[5] ELSE fields[4]
             processInfo == IF /\ Len(fields) > 5
                               /\ Contains(fields[Len(fields)], UsersMark)
                            THEN parseProcessInfo(fields[Len(fields)])
                            ELSE ""
         IN  IF dropLine(state, showAll) THEN <<>>
             ELSE << [Protocol    |-> ToUpper(protocol),
                      Address     |-> address,
                      Port        |-> LastPart(address, 1),
                      State       |-> state,
                      ProcessName |-> processInfo] >>

\* the loop of parseNetworkOutput from line i on (line 1 is i == 0)
RECURSIVE parseFrom(_, _, _, _)
parseFrom(lines, showAll, i, ports) ==
    IF i > Len(lines) THEN ports
    ELSE parseFrom(lines, showAll, i + 1,
                   IF i = 1 \/ Len(lines[i]) = 0 THEN ports
                   ELSE ports \o parseLine(lines[i], showAll))

\* NetworkMonitor.parseNetworkOutput
parseNetworkOutput(output, showAll) == parseFrom(output, showAll, 1, <<>>)

SocketInit ==
    /\ SystemInit
    /\ input \in [output : SocketOutputs, showAll : BOOLEAN]
    /\ result = NoInput
    /\ stage = "start"

\* return nm.parseNetworkOutput(string(output), showAll)
ParseNetwork ==
    /\ stage = "start"
    /\ result' = <<parseNetworkOutput(input.output, input.showAll)>>
    /\ stage' = "listed"
    /\ UNCHANGED <<now, sharedVars, crashed, tempVars, memVars, handlers,
                   input>>

\* uniquePorts := b.deduplicatePorts(ports), of the list GetPorts returned
DedupListed ==
    /\ stage = "listed"
    /\ \E unique \in deduplicatePorts(result[1]) :
           result' = Append(result, unique)
    /\ stage' = "reported"
    /\ UNCHANGED <<now, sharedVars, crashed, tempVars, memVars, handlers,
                   input>>

SocketNext ==
    \/ ParseNetwork
    \/ DedupListed

SocketSpec == SocketInit /\ [][SocketNext]_vars

(***************************************************************************)
(* handleTemperatureCommand, handlePortsCommand and handleMemoryCommand on *)
(* their own: one interaction, with what Discord and the monitor answer.   *)
(***************************************************************************)
OnDemandCommands == {"temp", "ports", "memory"}

\* how GetSensors / GetPorts / GetTopProcesses can end: exec.LookPath fails,
\* cmd.Output fails, the parser finds nothing, the parser finds something
MonitorOutcomes ==
    {"ToolUnavailable", "ExecutionFailed", "ParseYieldedEmpty", "Data"}

\* the (list, err) pair of the monitor call, the list by its length
MonitorReturn(outcome) ==
    [err |-> outcome \in {"ToolUnavailable", "ExecutionFailed"},
     len |-> IF outcome = "Data" THEN 1 ELSE 0]

\* sendError: the followup message with the title and the error
sendError == "error"

\* a slip: an empty result is rendered like any other
replyToRendered(command, returned) ==
    IF returned.err THEN sendError ELSE "report"

\* what the handler hands to FollowupMessageCreate after the monitor call:
\* sendError on err; on an empty list sendError for /temp and the text "No
\* network ports found" / "No processes found with memory usage" for the
\* other two; the embed of BuildTemperature / BuildPorts / BuildMemory else
replyTo(command, returned) ==
    IF returned.err THEN sendError
    ELSE IF returned.len = 0
         THEN IF command = "temp" THEN sendError ELSE "notFound"
         ELSE "report"

\* the followup messages of one handler run, with Discord's answer to each
NoPages == <<>>

CommandInit ==
    /\ SystemInit
    /\ input \in [command : OnDemandCommands, deferErr : BOOLEAN,
                  outcome : MonitorOutcomes, followupErr : BOOLEAN]
    /\ result = NoPages
    /\ stage = "start"

\* InteractionRespond with the deferred response: on an error the handler
\* returns at once
CommandDefer ==
    /\ stage = "start"
    /\ stage' = IF input.deferErr THEN "returned" ELSE "deferred"
    /\ UNCHANGED <<now, sharedVars, crashed, tempVars, memVars, handlers,
                   input, result>>

\* the monitor call and the followup message; an error of the followup is
\* logged and nothing else is done about it
CommandReply ==
    /\ stage = "deferred"
    /\ result' = <<[page |-> replyTo(input.command, MonitorReturn(input.outcome)),
                    err |-> input.followupErr]>>
    /\ stage' = "returned"
    /\ UNCHANGED <<now, sharedVars, crashed, tempVars, memVars, handlers,
                   input>>

CommandNext ==
    \/ CommandDefer
    \/ CommandReply

CommandSpec == CommandInit /\ [][CommandNext]_vars

(***************************************************************************)
(* The sensors parser: parseSensorsOutput and its fallback.  A line of the *)
(* output that counts is one the value pattern matches ("input", under its *)
(* chip, which gives the key) or one the fallback pattern matches          *)
(* ("simple"); a line carries the label the sensor ends up with and the    *)
(* value ParseFloat reads, in whole degrees.                               *)
(***************************************************************************)
CategoryCPU == "CPU"
CategoryGPU == "GPU"
CategoryOther == "Other"

\* TemperatureMonitor.categorizeSensor
categorizeSensor(label) ==
    LET lower == ToLower(label)
    IN  IF \/ Contains(lower, <<"c", "o", "r", "e">>)
           \/ Contains(lower, <<"p", "a", "c", "k", "a", "g", "e">>)
           \/ Contains(lower, <<"c", "p", "u">>)
           \/ Contains(lower, <<"p", "e", "c", "i">>)
        THEN CategoryCPU
        ELSE IF \/ Contains(lower, <<"g", "p", "u">>)
                \/ Contains(lower, <<"n", "o", "u", "v", "e", "a", "u">>)
                \/ Contains(lower, <<"r", "a", "d", "e", "o", "n">>)
                \/ Contains(lower, <<"a", "m", "d", "g", "p", "u">>)
        THEN CategoryGPU
        ELSE CategoryOther

\* a slip: the fallback leaves Status at its zero value
UnclassifiedSensor(id, label, temp) ==
    [ID |-> id, Category |-> categorizeSensor(label), Temperature |-> temp,
     Status |-> TempNormal]

\* TemperatureSensor{ID, Name, Temperature, Category, Status}, as both paths
\* of the parser fill it
TemperatureSensor(id, label, temp) ==
    [ID |-> id, Category |-> categorizeSensor(label), Temperature |-> temp,
     Status |-> getTemperatureStatus(CriticalThreshold, WarningThreshold, temp)]

\* tempValues[key] = temp, tempLabels[key] = label: the last line of a key
\* counts; the value pattern [\d.]+ matches no sign
RECURSIVE ScanReadings(_, _, _)
ScanReadings(lines, i, seen) ==
    IF i > Len(lines) THEN seen
    ELSE ScanReadings(lines, i + 1,
             IF lines[i].kind = "input" /\ lines[i].temp >= 0
             THEN RememberLast(seen, lines[i].key, lines[i])
             ELSE seen)

\* for key, temperature := range tempValues, in one order of the map
structuredSensors(seen, order) ==
    [k \in 1..Len(order) |->
        TemperatureSensor(order[k], seen[order[k]].label, seen[order[k]].temp)]

\* a slip of the fallback: see UnclassifiedSensor
RECURSIVE parseSimpleUnclassified(_, _, _)
parseSimpleUnclassified(lines, i, found) ==
    IF i > Len(lines) THEN found
    ELSE parseSimpleUnclassified(lines, i + 1,
             IF lines[i].kind = "simple"
             THEN Append(found, UnclassifiedSensor(lines[i].label,
                                                   lines[i].label, lines[i].temp))
             ELSE found)

\* TemperatureMonitor.parseSimpleSensorsOutput, from line i on
RECURSIVE parseSimpleSensorsOutput(_, _, _)
parseSimpleSensorsOutput(lines, i, found) ==
    IF i > Len(lines) THEN found
    ELSE parseSimpleSensorsOutput(lines, i + 1,
             IF lines[i].kind = "simple"
             THEN Append(found, TemperatureSensor(lines[i].label,
                                                  lines[i].label, lines[i].temp))
             ELSE found)

\* the less function of the parser's sort.Slice: category ascending, then
\* temperature descending ("CPU" < "GPU" < "Other" as strings)
CategoryRank(category) ==
    IF category = CategoryCPU THEN 1 ELSE IF category = CategoryGPU THEN 2 ELSE 3
SensorLess(a, b) ==
    IF a.Category # b.Category
    THEN CategoryRank(a.Category) < CategoryRank(b.Category)
    ELSE a.Temperature > b.Temperature

\* sort.Slice on at most 12 sensors: the insertion sort
RECURSIVE MoveSensorDown(_, _)
MoveSensorDown(data, j) ==
    IF j > 1 /\ SensorLess(data[j], data[j - 1])
    THEN MoveSensorDown([data EXCEPT ![j] = data[j - 1], ![j - 1] = data[j]],
                        j - 1)
    ELSE data
RECURSIVE SortSensorsFrom(_, _)
SortSensorsFrom(data, i) ==
    IF i > Len(data) THEN data
    ELSE SortSensorsFrom(MoveSensorDown(data, i), i + 1)
SortSensors(data) == SortSensorsFrom(data, 2)

\* TemperatureMonitor.parseSensorsOutput: the lists a call can return
parseSensorsOutput(lines) ==
    LET seen == ScanReadings(lines, 1, <<>>)
    IN  IF DOMAIN seen = {}
        THEN {SortSensors(parseSimpleSensorsOutput(lines, 1, <<>>))}
        ELSE {SortSensors(structuredSensors(seen, order)) :
                  order \in KeyOrders(DOMAIN seen)}

\* the lines of an output: two chips' readings, of a core and of a sensor
\* with a plain name
SensorKeys == {"coretemp-isa-0000_temp1", "acpitz-acpi-0_temp1"}
SensorLabels == {<<"C", "o", "r", "e", " ", "0">>, <<"t", "e", "m", "p", "1">>}
SensorLines ==
    [kind : {"input", "simple"}, key : SensorKeys, label : SensorLabels,
     temp : TempValues]
SensorOutputs == UNION {[1..n -> SensorLines] : n \in 0..MaxReadings}

SensorInit ==
    /\ SystemInit
    /\ input \in SensorOutputs
    /\ result = NoInput
    /\ stage = "start"

\* sensors, parseErr := tm.parseSensorsOutput(string(output))
ParseSensors ==
    /\ stage = "start"
    /\ \E list \in parseSensorsOutput(input) : result' = <<list>>
    /\ stage' = "sensed"
    /\ UNCHANGED <<now, sharedVars, crashed, tempVars, memVars, handlers,
                   input>>

\* the same output parsed once more
ParseSensorsAgain ==
    /\ stage = "sensed"
    /\ \E list \in parseSensorsOutput(input) : result' = Append(result, list)
    /\ stage' = "resensed"
    /\ UNCHANGED <<now, sharedVars, crashed, tempVars, memVars, handlers,
                   input>>

SensorNext ==
    \/ ParseSensors
    \/ ParseSensorsAgain

SensorSpec == SensorInit /\ [][SensorNext]_vars

(***************************************************************************)
(* Builder.BuildAlert and Builder.BuildTemperature                         *)
(***************************************************************************)
discordFieldLimit == 25
alertSensorLimit == 15
alertFieldRoom == 3

CoreLabel == <<"C", "o", "r", "e", " ", "1">>
GpuLabel == <<"a", "m", "d", "g", "p", "u">>
BoardLabel == <<"t", "e", "m", "p", "1">>

\* What the parser returns for a machine with ncpu core sensors, the first
\* at temperature hot and the others at temperature rest, and the GPU
\* sensors and the sensors of no known kind of the given temperatures:
\* category ascending, temperature descending within one category.
GeneratedSensors(ncpu, hot, rest, gpus, boards) ==
    [k \in 1..ncpu |->
        TemperatureSensor(k, CoreLabel, IF k = 1 THEN hot ELSE rest)]
    \o [k \in 1..Len(gpus) |->
           TemperatureSensor(ncpu + k, GpuLabel, gpus[k])]
    \o [k \in 1..Len(boards) |->
           TemperatureSensor(ncpu + Len(gpus) + k, BoardLabel, boards[k])]

PageSensorLists ==
    {GeneratedSensors(ncpu, t[1], t[2], gpus, boards) :
        ncpu \in 0..MaxPageSensors,
        t \in {p \in TempValues \X TempValues : p[2] <= p[1]},
        gpus \in {<<>>} \cup {<<g>> : g \in TempValues \ {72}},
        boards \in {<<>>} \cup {<<b>> : b \in {72}}}

\* maxTemp := 0.0; for ... if sensor.Temperature > maxTemp
RECURSIVE maxTempOf(_, _)
maxTempOf(list, maxTemp) ==
    IF list = <<>> THEN maxTemp
    ELSE maxTempOf(Tail(list),
                   IF Head(list).Temperature > maxTemp
                   THEN Head(list).Temperature ELSE maxTemp)

Breaching(sensor) == sensor.Status \in {TempCritical, TempWarning}

\* the alert page as it is with every sensor looked at
BuildAlertAll(lvl, list) ==
    LET alertSensors == SelectSeq(list, Breaching)
        normalSensors == SelectSeq(list, LAMBDA s : ~Breaching(s))
        first == IF alertSensors # <<>>
                 THEN <<[Name |-> "alert", Value |-> alertSensors]>>
                 ELSE <<>>
        second == IF normalSensors # <<>> /\ Len(first) < alertFieldRoom
                  THEN <<[Name |-> "normal", Value |-> normalSensors]>>
                  ELSE <<>>
    IN  [Title |-> lvl,
         Color |-> BuilderGetTemperatureStatus(CriticalThreshold,
                       WarningThreshold, maxTempOf(list, 0)),
         Fields |-> first \o second \o <<[Name |-> "time", Value |-> <<>>]>>]

\* Builder.BuildAlert: the first alertSensorLimit sensors are told apart by
\* their Status; the field of the breaching ones, if there is any; the
\* field of the normal ones, if there is any and room; the time field.
BuildAlert(lvl, list) ==
    LET looked == SubSeq(list, 1,
                         IF Len(list) < alertSensorLimit THEN Len(list)
                         ELSE alertSensorLimit)
        alertSensors == SelectSeq(looked, Breaching)
        normalSensors == SelectSeq(looked, LAMBDA s : ~Breaching(s))
        first == IF alertSensors # <<>>
                 THEN <<[Name |-> "alert", Value |-> alertSensors]>>
                 ELSE <<>>
        second == IF normalSensors # <<>> /\ Len(first) < alertFieldRoom
                  THEN <<[Name |-> "normal", Value |-> normalSensors]>>
                  ELSE <<>>
    IN  [Title |-> lvl,
         Color |-> BuilderGetTemperatureStatus(CriticalThreshold,
                       WarningThreshold, maxTempOf(list, 0)),
         Fields |-> first \o second \o <<[Name |-> "time", Value |-> <<>>]>>]

\* the loop over the sensors: the truncation notice once the page has
\* discordFieldLimit fields, a field for the sensor otherwise
RECURSIVE addSensorFields(_, _, _)
addSensorFields(list, i, fields) ==
    IF i > Len(list) THEN fields
    ELSE IF Len(fields) >= discordFieldLimit
    THEN Append(fields, [Name |-> "...",
                         Value |-> Len(list) - (Len(fields) - 1)])
    ELSE addSensorFields(list, i + 1,
             Append(fields, [Name |-> list[i].ID,
                             Value |-> list[i].Temperature]))

\* the fields as they are with the notice in the place of the last sensor
\* field
addSensorFieldsWithin(list, i, fields) ==
    LET all == addSensorFields(list, i, fields)
    IN  IF Len(all) > discordFieldLimit
        THEN SubSeq(all, 1, discordFieldLimit - 1) \o <<all[Len(all)]>>
        ELSE all

\* Builder.BuildTemperature: the overview field, with the highest
\* temperature of each category that occurs, then the sensor fields
BuildTemperature(list) ==
    LET found == {list[i].Category : i \in 1..Len(list)}
        hardwareTemps ==
            [c \in found |->
                CHOOSE t \in {list[i].Temperature : i \in 1..Len(list)} :
                   /\ \E i \in 1..Len(list) :
                         list[i].Category = c /\ list[i].Temperature = t
                   /\ \A i \in 1..Len(list) :
                         list[i].Category = c => list[i].Temperature <= t]
    IN  [Color |-> BuilderGetTemperatureStatus(CriticalThreshold,
                       WarningThreshold, maxTempOf(list, 0)),
         Fields |-> addSensorFields(list, 1,
                        <<[Name |-> "overview",
                           Value |-> [temps |-> hardwareTemps,
                                      max |-> maxTempOf(list, 0)]]>>)]

PageInit ==
    /\ SystemInit
    /\ input \in PageSensorLists
    /\ result = NoInput
    /\ stage = "start"

\* startTemperatureMonitoring: the hottest sensor is Critical or Warning
\* and sendTemperatureAlert builds the alert page of the cycle's sensors
AlertPage ==
    /\ stage = "start"
    /\ Len(input) > 0
    /\ LET maxSensor == maxSensorOf(input)
       IN  /\ Breaching(maxSensor)
           /\ result' = <<BuildAlert(IF maxSensor.Status = TempCritical
                                     THEN "CRITICAL" ELSE "WARNING", input)>>
    /\ stage' = "alerted"
    /\ UNCHANGED <<now, sharedVars, crashed, tempVars, memVars, handlers,
                   input>>

\* handleTemperatureCommand: the report of a list that is not empty
TemperaturePage ==
    /\ stage = "start"
    /\ Len(input) > 0
    /\ result' = <<BuildTemperature(input)>>
    /\ stage' = "shown"
    /\ UNCHANGED <<now, sharedVars, crashed, tempVars, memVars, handlers,
                   input>>

PageNext ==
    \/ AlertPage
    \/ TemperaturePage

PageSpec == PageInit /\ [][PageNext]_vars

(***************************************************************************)
(* Properties of the alert coordinator.                                    *)
(***************************************************************************)
\* the positions of sendTemperatureAlert after its guard
Dispatching == {"range", "loop", "send"}

\* the temperatures of a sensor list, and the status of its hottest reading
TemperaturesOf(list) == {list[i].Temperature : i \in 1..Len(list)}
HottestStatus(list) ==
    LET hottest == CHOOSE t \in TemperaturesOf(list) :
                       \A u \in TemperaturesOf(list) : u <= t
    IN  IF hottest >= CriticalThreshold THEN TempCritical
        ELSE IF hottest >= WarningThreshold THEN TempWarning
        ELSE TempNormal

\* C1: alert cooldown.  A delivery is made only at least AlertCooldown after
\* the time recorded in lastAlert, whatever the level; and a call that finds
\* the cooldown elapsed goes on to the channel check, where at least one
\* subscribed destination makes it dispatch.
C1_Cooldown ==
    [][ /\ (tpc' \in Dispatching => now' - lastAlert' >= AlertCooldown)
        /\ (tpc = "cooldown" /\ tpc' # "cooldown" /\ ~crashed'
              => (tpc' = "channels" <=> now - lastAlert >= AlertCooldown))
        /\ (tpc = "channels" /\ tpc' # "channels" /\ ~crashed'
              /\ alertChannels # {} => tpc' = "range") ]_vars

\* a second dispatch is delivering, one cooldown or more after the first
C1_Witness ==
    /\ lastAlert # ZeroTime
    /\ tpc = "send"
    /\ now - lastAlert >= AlertCooldown

\* C2: dispatch guard.  The call dispatches only with the cooldown elapsed
\* and a non-empty destination set; a call that fails either check returns
\* without a delivery and leaves lastAlert and the destination set as they
\* were.
C2_DispatchGuard ==
    [][ /\ (tpc \notin Dispatching /\ tpc' \in Dispatching
              => /\ tpc = "channels"
                 /\ now - lastAlert >= AlertCooldown
                 /\ alertChannels # {})
        /\ (tpc = "cooldown" /\ now - lastAlert < AlertCooldown
              /\ tpc' # "cooldown" => tpc' = "wait")
        /\ (tpc = "channels" /\ alertChannels = {}
              /\ tpc' # "channels" => tpc' = "wait")
        /\ (tpc \in {"cooldown", "channels"} /\ tpc' = "wait"
              => /\ lastAlert' = lastAlert
                 /\ alertChannels' = alertChannels
                 /\ delivery = NoDelivery /\ delivery' = NoDelivery) ]_vars

\* a breach call past the cooldown check finds no subscriber, and no alert
\* has ever been recorded
C2_Witness ==
    /\ tpc = "channels"
    /\ alertChannels = {}
    /\ lastAlert = ZeroTime

\* C3: the step that ends a dispatch sets lastAlert to the current time,
\* whatever the deliveries did, also when every one of them failed.
C3_LastAlertSet ==
    [][ (tpc \in Dispatching) /\ tpc' = "wait" /\ ~crashed'
          => lastAlert' = now' ]_vars

\* a dispatch is about to end in which every delivery failed
C3_Witness ==
    /\ tpc = "loop"
    /\ must = {}
    /\ \E c \in Channels : delivery[c] = "failed"
    /\ \A c \in Channels : delivery[c] \in {"none", "failed"}
    /\ now # lastAlert

\* C4: when a dispatch ends, every destination subscribed when it started
\* has had exactly one delivery; one that failed is no longer subscribed and
\* one that succeeded still is.
C4_OneAttemptEach ==
    [][ tpc = "loop" /\ tpc' = "wait" /\ ~crashed'
          => \A c \in subscribedAtStart :
               /\ delivery[c] \in {"ok", "failed"}
               /\ (delivery[c] = "failed" => c \notin alertChannels)
               /\ (delivery[c] = "ok" => c \in alertChannels) ]_vars

\* C5: the poll tasks and the request handlers never are inside conflicting
\* accesses of alertChannels, lastAlert or lastMemoryData at the same time.
C5_MutualExclusion ==
    /\ ~(tpc \in {"range", "loop", "send"} /\ Writing > 0)
    /\ ~(Writing >= 2 \/ (Writing >= 1 /\ Reading >= 1))
    /\ ~(mpc = "store" /\ Reading > 0)
    /\ ~(tpc = "loop" /\ must = {} /\ Reading > 0)

\* C6: a poll cycle with a non-empty reading list goes on to
\* sendTemperatureAlert exactly when its hottest reading is Warning or
\* Critical, with the CRITICAL level exactly for Critical; with a Normal
\* hottest reading the cycle ends and the alert state is as it was.
C6_DispatchIffBreach ==
    [][ tpc = "eval" /\ tpc' # "eval" /\ ~crashed'
          => /\ (tpc' = "cooldown" <=> HottestStatus(sensors) # TempNormal)
             /\ (tpc' = "cooldown"
                   => (level' = "CRITICAL" <=> HottestStatus(sensors) = TempCritical))
             /\ (tpc' = "cooldown"
                   => (level' = "WARNING" <=> HottestStatus(sensors) = TempWarning))
             /\ (HottestStatus(sensors) = TempNormal
                   => /\ tpc' = "wait"
                      /\ lastAlert' = lastAlert
                      /\ alertChannels' = alertChannels) ]_vars

\* a cycle whose hottest reading is Warning, behind a Normal one, has called
\* sendTemperatureAlert with the WARNING level
C6_Witness ==
    /\ tpc = "cooldown"
    /\ level = "WARNING"
    /\ Len(sensors) = 2
    /\ sensors[1].Status = TempNormal

\* C7: alerts are not suppressed for ever.  In every behaviour in which the
\* process keeps running, a destination stays subscribed from some point on
\* and every poll from some point on succeeds and reports a breach, that
\* destination is delivered an alert again and again.
C7_NotDroppedForever ==
    \A c \in Channels :
        ( /\ []~crashed
          /\ <>[](c \in alertChannels)
          /\ <>[](tpc # "skip")
          /\ <>[](tpc = "eval" => HottestStatus(sensors) # TempNormal) )
        => []<>(tpc = "send" /\ cur = c)

\* after an earlier alert and a full cooldown, a destination that is still
\* subscribed is delivered a further alert
C7_Witness ==
    /\ ~crashed
    /\ lastAlert # ZeroTime
    /\ now - lastAlert >= AlertCooldown
    /\ tpc = "send"
    /\ cur \in alertChannels

(***************************************************************************)
(* Properties of the classifier.                                           *)
(***************************************************************************)
\* the label the classification rule gives a reading
Classified(critical, warning, temp, status) ==
    /\ (status = TempCritical <=> temp >= critical)
    /\ (status = TempWarning <=> (warning <= temp /\ temp < critical))
    /\ (status = TempNormal <=> temp < warning)

\* C8: for thresholds warning < critical and every temperature, both
\* getTemperatureStatus functions return Critical iff temp >= critical,
\* Warning iff warning <= temp < critical and Normal iff temp < warning;
\* under 70 and 80 the readings 65, 72, 85 are Normal, Warning, Critical.
C8_Classification ==
    (stage = "builder" /\ input.warning < input.critical)
        => /\ Classified(input.critical, input.warning, input.temp, result[1])
           /\ Classified(input.critical, input.warning, input.temp, result[2])
           /\ (input.warning = 70 /\ input.critical = 80 /\ input.temp = 65
                 => result = <<TempNormal, TempNormal>>)
           /\ (input.warning = 70 /\ input.critical = 80 /\ input.temp = 72
                 => result = <<TempWarning, TempWarning>>)
           /\ (input.warning = 70 /\ input.critical = 80 /\ input.temp = 85
                 => result = <<TempCritical, TempCritical>>)

\* a reading exactly on the warning threshold has been classified by both
C8_Witness ==
    /\ stage = "builder"
    /\ input = [critical |-> 80, warning |-> 70, temp |-> 70]
    /\ result = <<TempWarning, TempWarning>>

(***************************************************************************)
(* Properties of the port deduplicator.                                    *)
(***************************************************************************)
Resolved(port) == port.ProcessName # ""

\* entries i and j of the input share a key, and exactly i has a resolved
\* process name
NamedAndUnnamed(i, j) ==
    /\ PortKey(input[i]) = PortKey(input[j])
    /\ Resolved(input[i])
    /\ ~Resolved(input[j])

\* the entries of a list that carry the key of a port
WithKeyOf(list, port) ==
    {list[k] : k \in {k \in 1..Len(list) : PortKey(list[k]) = PortKey(port)}}

\* the first entry of the input that carries the key of a port
FirstWithKeyOf(port) ==
    input[CHOOSE k \in 1..Len(input) :
              /\ PortKey(input[k]) = PortKey(port)
              /\ \A l \in 1..(k - 1) : PortKey(input[l]) # PortKey(port)]

C10_Idempotent ==
    stage = "twice" => result[2] = result[1]

\* the keys of the entries of a list
KeysOf(list) == {PortKey(list[k]) : k \in 1..Len(list)}

\* C11: after deduplicatePorts no two entries of the result share the
\* normalized (protocol, address, port) triple, and every key of the input
\* is in the result exactly once.
C11_UniqueKeys ==
    stage = "once" =>
        /\ \A i, j \in 1..Len(result[1]) :
               PortKey(result[1][i]) = PortKey(result[1][j]) => i = j
        /\ KeysOf(result[1]) = KeysOf(input)

\* a list with a repeated key and a second key has been reduced to two entries
C11_Witness ==
    /\ stage = "once"
    /\ Len(input) = 3
    /\ Len(result[1]) = 2

\* the order the sort is meant to establish: TCP before UDP, then the
\* numeric port ascending, ports that are no number after those that are
IsTCP(port) == ToUpper(TrimSpace(port.Protocol)) = <<"T", "C", "P">>
HasNumber(port) == Len(DigitRun(TrimSpace(port.Port))) > 0
NumberOf(port) == DecimalValue(DigitRun(TrimSpace(port.Port)))
NotAfter(a, b) ==
    IF IsTCP(a) # IsTCP(b) THEN IsTCP(a)
    ELSE IF HasNumber(a) # HasNumber(b) THEN HasNumber(a)
    ELSE IF HasNumber(a) THEN NumberOf(a) <= NumberOf(b)
    ELSE TRUE
Ordered(list) ==
    \A i, j \in 1..Len(list) : i < j => NotAfter(list[i], list[j])

\* C12: the output of deduplicatePorts is ordered by protocol (TCP before
\* UDP), then by ascending numeric port with the ports that are no number
\* last; the sort applied to its own output leaves it unchanged.
C12_SortedOutput ==
    /\ (stage = "once" => Ordered(result[1]))
    /\ (stage = "sorted" => result[2] = result[1])

\* a UDP entry, a port that is no number and a numeric port, given in that
\* order, have been sorted and sorted again
C12_Witness ==
    /\ stage = "sorted"
    /\ Len(input) = 3
    /\ ~IsTCP(input[1])
    /\ IsTCP(input[2]) /\ ~HasNumber(input[2])
    /\ IsTCP(input[3]) /\ HasNumber(input[3])
    /\ Len(result[2]) = 3

\* the entries on a page: its lines
EntriesOn(chunk) ==
    IF Len(chunk) = 0 THEN 0
    ELSE 1 + Cardinality({k \in 1..Len(chunk) : chunk[k] = "\n"})

FieldsOf(embed, kind) ==
    {k \in 1..Len(embed.Fields) : embed.Fields[k].kind = kind}

\* the port entries shown on the first k fields of a report
RECURSIVE ShownUpTo(_, _)
ShownUpTo(embed, k) ==
    IF k = 0 THEN 0
    ELSE ShownUpTo(embed, k - 1)
             + (IF embed.Fields[k].kind = "ports"
                THEN EntriesOn(embed.Fields[k].Value) ELSE 0)
ShownPorts(embed) == ShownUpTo(embed, Len(embed.Fields))

\* what the truncation markers of the first k fields report as left off:
\* the total of "Showing shown/total" less the shown
RECURSIVE TruncatedUpTo(_, _)
TruncatedUpTo(embed, k) ==
    IF k = 0 THEN 0
    ELSE TruncatedUpTo(embed, k - 1)
             + (IF embed.Fields[k].kind = "truncated"
                THEN embed.Fields[k].numbers[2] - embed.Fields[k].numbers[1]
                ELSE 0)
TruncatedCount(embed) == TruncatedUpTo(embed, Len(embed.Fields))

\* len(uniquePorts) of the call that built a report
UniqueCount(embed) == Len(input.ports) - embed.removed

\* C14: no silent truncation.  Whenever a report shows fewer port entries
\* than deduplicatePorts returned, it carries a truncation marker, also when
\* the TCP section fills all 12 pages and UDP ports exist.
C14_TruncationMarked ==
    stage = "built" =>
        (ShownPorts(result[1]) < UniqueCount(result[1])
            => FieldsOf(result[1], "truncated") # {})

\* C15: completeness or truncation.  The port entries shown on the pages of
\* a report plus the count its truncation markers report as left off equal
\* the number of deduplicated entries.
C15_ShownPlusTruncated ==
    stage = "built" =>
        ShownPorts(result[1]) + TruncatedCount(result[1])
            = UniqueCount(result[1])

\* C16: deterministic rendering.  Two calls of BuildPorts with the same list
\* return the same title, the same description and the same fields in the
\* same order, entries that tie on protocol and port number included.
C16_Deterministic ==
    stage = "rebuilt" => result[2] = result[1]

\* C17: the summary.  Every report has exactly one summary field and it is
\* the last field, with or without truncation and with or without port pages.
C17_SummaryLast ==
    stage = "built" =>
        /\ Cardinality(FieldsOf(result[1], "summary")) = 1
        /\ result[1].Fields[Len(result[1].Fields)].kind = "summary"
        /\ result[1].Fields[Len(result[1].Fields)].numbers[1]
               = Len(input.ports)
C17_Witness ==
    /\ stage = "built"
    /\ FieldsOf(result[1], "truncated") # {}
    /\ Cardinality(FieldsOf(result[1], "ports")) = maxTotalFields
    /\ result[1].Fields[Len(result[1].Fields)].kind = "summary"

\* the memory shares of a list of processes, in tenths, and the %MEM column
\* of a list of lines
SharesOf(list) == [k \in 1..Len(list) |-> list[k].MemoryPercent]
MemColumn(lines) == [k \in 1..Len(lines) |-> lines[k].mem]
ScenarioColumn ==
    << <<"1", "2", ".", "4">>, <<"0", ".", "0">>, <<"3", ".", "1">> >>

\* C18: the process table.  The result of parseTopOutput for an accepted
\* table has no entry with memory share 0, is in order of non-increasing
\* memory share and has at most 10 entries; lines with the shares 12.4, 0.0
\* and 3.1 give the shares 12.4 and 3.1.
C18_TopProcesses ==
    (stage = "parsed" /\ ~result.err) =>
        /\ \A k \in 1..Len(result.top) : result.top[k].MemoryPercent # 0
        /\ \A k \in 1..(Len(result.top) - 1) :
               result.top[k].MemoryPercent >= result.top[k + 1].MemoryPercent
        /\ Len(result.top) <= maxTopProcesses
        /\ (/\ \A k \in 1..Len(input.lines) : input.lines[k].kind = "process"
            /\ MemColumn(input.lines) = ScenarioColumn)
               => SharesOf(result.top) = <<124, 31>>
C18_Witness ==
    /\ stage = "parsed"
    /\ ~result.err
    /\ \A k \in 1..Len(input.lines) : input.lines[k].kind = "process"
    /\ MemColumn(input.lines) = ScenarioColumn
    /\ SharesOf(result.top) = <<124, 31>>

\* a state column that holds a listening or an unconnected marker
ListeningState(state) == Contains(state, Listen) \/ Contains(state, Unconn)
\* the lines under the header that ss printed for a socket in such a state
ListeningLines(output) ==
    SelectSeq(Tail(output),
              LAMBDA line : Len(line) >= 6 /\ ListeningState(line[2]))
AddressesOf(list) == [k \in 1..Len(list) |-> list[k].Address]
LocalColumn(lines) == [k \in 1..Len(lines) |-> lines[k][5]]

\* C19: listening-only mode.  With showAll false every entry parseNetworkOutput
\* returns has a state holding LISTEN or UNCONN, and the lines with such a
\* state are returned, one entry each in their order; deduplicatePorts keeps
\* entries of one protocol and port whose addresses differ (0.0.0.0:22 and
\* 127.0.0.1:22) as separate entries.
C19_ListeningOnly ==
    /\ (stage \in {"listed", "reported"} /\ ~input.showAll) =>
           /\ \A k \in 1..Len(result[1]) : ListeningState(result[1][k].State)
           /\ AddressesOf(result[1]) = LocalColumn(ListeningLines(input.output))
    /\ stage = "reported" =>
           \A k \in 1..Len(result[1]) :
               Cardinality({j \in 1..Len(result[2]) :
                   /\ result[2][j].Protocol = result[1][k].Protocol
                   /\ result[2][j].Address = result[1][k].Address}) = 1
C19_Witness ==
    /\ stage = "reported"
    /\ ~input.showAll
    /\ Len(input.output) = 4
    /\ Len(result[1]) = 2
    /\ \E k \in 2..4 : /\ Len(input.output[k]) = 6
                       /\ input.output[k][2] = Estab
    /\ {result[2][j].Address : j \in 1..Len(result[2])}
           = {AnyAddress22, LoopAddress22}
    /\ \A j \in 1..Len(result[2]) : result[2][j].Port = <<"2", "2">>

\* a step that dispatches nothing, ends nothing and leaves lastAlert, the
\* destinations and the memory snapshot as they were
AbortsCycleOnly ==
    /\ lastAlert' = lastAlert
    /\ alertChannels' = alertChannels
    /\ lastMemoryData' = lastMemoryData
    /\ delivery' = delivery
    /\ crashed' = crashed

\* C20: a failed poll cycle.  A temperature or memory cycle whose command
\* fails or yields nothing goes back to wait for the next tick, without a
\* dispatch, without a second poll and leaving lastAlert, the destinations
\* and the memory snapshot as they were; the process does not end in such a
\* cycle unless an unsynchronised access of another goroutine ends it.
C20_FailedCycleSkipped ==
    [][ /\ (tpc = "wait" /\ tpc' = "skip") => AbortsCycleOnly
        /\ (mpc = "wait" /\ mpc' = "skip") => AbortsCycleOnly
        /\ (tpc = "skip" /\ tpc' # tpc)
               => \/ RaceFault /\ crashed'
                  \/ tpc' = "wait" /\ AbortsCycleOnly
        /\ (mpc = "skip" /\ mpc' # mpc)
               => \/ RaceFault /\ crashed'
                  \/ mpc' = "wait" /\ AbortsCycleOnly ]_vars
\* both polls have failed in a bot that has alerted, has a destination and
\* holds a snapshot
C20_Witness ==
    /\ ~crashed
    /\ tpc = "skip"
    /\ mpc = "skip"
    /\ lastAlert # ZeroTime
    /\ alertChannels # {}
    /\ lastMemoryData # <<>>

(***************************************************************************)
(* Ownership of the shared fields.                                         *)
(***************************************************************************)
\* a step of an interaction goroutine other than /alerts: /status or one of
\* the three report commands begins or ends
ReadOnlyHandlerStep ==
    \/ handlers'[StatusHandler] # handlers[StatusHandler]
    \/ handlers'[OnDemandHandler] # handlers[OnDemandHandler]

\* C21: lastMemoryData has a single writer. Every step that changes it is
\* the store of the memory-poll task, every store of the memory-poll task
\* puts that cycle's list of top processes in it, and no step of a /status,
\* /temp, /ports or /memory handler changes it.
C21_SingleWriter ==
    [][ /\ lastMemoryData' # lastMemoryData
            => mpc = "store" /\ mpc' = "wait" /\ ~crashed'
        /\ (mpc = "store" /\ mpc' # mpc /\ ~crashed')
            => lastMemoryData' = processes
        /\ ReadOnlyHandlerStep => lastMemoryData' = lastMemoryData ]_vars

\* a snapshot is cached, a /status handler is reading it and the memory
\* poll is about to overwrite it
C21_Witness ==
    /\ lastMemoryData # <<>>
    /\ Reading > 0
    /\ mpc = "store"

\* C22: the alert state is changed only by a dispatch and by /alerts.
\* lastAlert changes only where sendTemperatureAlert ends its loop, and then
\* to the time of that step; alertChannels changes only where the dispatch
\* has a failed delivery or where an /alerts handler makes its write; the
\* steps of the memory poll and of the /temp, /ports, /memory and /status
\* handlers leave both as they are.
C22_AlertStateOwned ==
    [][ /\ lastAlert' # lastAlert
            => tpc = "loop" /\ tpc' = "wait" /\ lastAlert' = now
        /\ alertChannels' # alertChannels
            => \/ tpc = "send" /\ tpc' = "loop"
               \/ Writing' < Writing /\ ~crashed'
        /\ (ReadOnlyHandlerStep \/ mpc' # mpc)
            => lastAlert' = lastAlert /\ alertChannels' = alertChannels ]_vars

\* an alert has gone out to a subscribed channel, and a report command is
\* being answered while the memory poll stores its snapshot
C22_Witness ==
    /\ lastAlert # ZeroTime
    /\ alertChannels # {}
    /\ handlers[OnDemandHandler] > 0
    /\ mpc = "store"

(***************************************************************************)
(* Properties of the report commands.                                      *)
(***************************************************************************)
\* the pages that tell the requester that there is nothing to report: the
\* message of sendError, and the "No ... found" text of /ports and /memory
ErrorPages == {sendError, "notFound"}

\* C23: a /temp, /ports or /memory request whose monitor call finds the
\* tool missing, fails, or yields an empty list ends with exactly one
\* followup message handed to Discord, which is an error page and never a
\* report.
C23_ErrorPageOnFailure ==
    (stage = "returned" /\ ~input.deferErr /\ input.outcome # "Data")
        => /\ Len(result) = 1
           /\ result[1].page \in ErrorPages
           /\ \A k \in 1..Len(result) : result[k].page # "report"

\* /ports has found no socket and has answered with its "not found" text
C23_Witness ==
    /\ stage = "returned"
    /\ input.command = "ports"
    /\ input.outcome = "ParseYieldedEmpty"
    /\ Len(result) = 1
    /\ result[1].page = "notFound"

\* the entries on the pages before page k
RECURSIVE EntriesBefore(_, _)
EntriesBefore(chunks, k) ==
    IF k <= 1 THEN 0
    ELSE EntriesBefore(chunks, k - 1) + EntriesOn(chunks[k - 1])

WithShareOf(list, p) ==
    SelectSeq(list, LAMBDA q : q.MemoryPercent = p.MemoryPercent)

\* C25: the memory ranking is stable.  In the result of parseTopOutput the
\* entries with one and the same share stand in the order in which their
\* rows were parsed: they are the first of the parsed rows with that share.
C25_StableRanking ==
    (stage = "parsed" /\ ~result.err) =>
        LET parsed == parseLines(input.lines, 1, <<>>)
        IN  \A k \in 1..Len(result.top) :
              LET ranked == WithShareOf(result.top, result.top[k])
              IN  ranked = SubSeq(WithShareOf(parsed, result.top[k]), 1,
                                  Len(ranked))

(***************************************************************************)
(* Properties of the sensors parser and of the temperature pages.          *)
(***************************************************************************)
\* C26: every sensor parseSensorsOutput returns, by the structured path or
\* by the fallback, has the status getTemperatureStatus gives its
\* temperature; and whatever the order in which the readings were taken
\* from the map and sorted, a sensor has the same status: two parses of one
\* output return the same sensors, status included, and differ in their
\* order at most.
C26_StatusDerived ==
    /\ stage \in {"sensed", "resensed"} =>
          \A r \in 1..Len(result) : \A k \in 1..Len(result[r]) :
              result[r][k].Status
                  = getTemperatureStatus(CriticalThreshold, WarningThreshold,
                                         result[r][k].Temperature)
    /\ stage = "resensed" =>
          {result[1][k] : k \in 1..Len(result[1])}
              = {result[2][l] : l \in 1..Len(result[2])}

\* two critical readings of one category and temperature, which the two
\* parses returned in different orders
C26_Witness ==
    /\ stage = "resensed"
    /\ Len(result[1]) = 2
    /\ result[1] # result[2]
    /\ result[1][1].Status = TempCritical


(***************************************************************************)
(* More properties of the alert coordinator.                               *)
(***************************************************************************)
\* C27, as stated: lastAlert is zero exactly as long as no dispatch has
\* passed the guard, so that it is not zero once one has, and in particular
\* while one that has is making its deliveries.
C27_ZeroUntilGuardPassed ==
    tpc \in Dispatching => lastAlert # ZeroTime

\* a dispatch runs to its end: the delivery loop is left
DispatchEnds == tpc = "loop" /\ tpc' = "wait" /\ ~crashed'

\* C27, amended: lastAlert is zero exactly as long as no dispatch has run to
\* its end.  It starts at zero; while it is zero the cooldown check lets
\* every breach through at once; it leaves zero only where a dispatch ends,
\* and every dispatch that ends leaves it non-zero; it never decreases.
C27_ZeroUntilDispatched ==
    /\ lastAlert = ZeroTime
    /\ [][ /\ (lastAlert = ZeroTime /\ tpc = "cooldown" /\ tpc' # tpc
                  /\ ~crashed') => tpc' = "channels"
           /\ (lastAlert = ZeroTime /\ lastAlert' # ZeroTime) => DispatchEnds
           /\ DispatchEnds => lastAlert' # ZeroTime
           /\ lastAlert' >= lastAlert ]_vars

\* the first breach has been dispatched to a subscribed channel at the very
\* time the bot was started
C27_Witness ==
    /\ lastAlert = BootTime
    /\ now = BootTime
    /\ tpc = "wait"
    /\ \E c \in Channels : delivery[c] = "none" /\ c \in alertChannels


\* C28: a delivery is made only to a channel that is subscribed when it is
\* made: once a disable of a channel has completed, and as long as no enable
\* of it has, the dispatch in progress sends nothing to it.
C28_NoDeliveryAfterDisable ==
    [][ (tpc = "send" /\ tpc' = "loop" /\ ~crashed') => cur \in alertChannels ]_vars


(***************************************************************************)
(* Properties of the temperature pages.                                    *)
(***************************************************************************)
\* the sensors a page lists in its field of that name
ListedIn(page, name) ==
    {s \in {input[i] : i \in 1..Len(input)} :
        \E f \in 1..Len(page.Fields) :
           /\ page.Fields[f].Name = name
           /\ \E k \in 1..Len(page.Fields[f].Value) :
                 page.Fields[f].Value[k] = s}

InParserOrder(list) ==
    \A i \in 1..(Len(list) - 1) : ~SensorLess(list[i + 1], list[i])

\* C29: the alert page of a dispatched alert lists, among its Critical and
\* Warning sensors, a sensor of the temperature that triggered the alert,
\* for every list in the parser's order.
C29_AlertListsTrigger ==
    (stage = "alerted" /\ InParserOrder(input))
        => \E s \in ListedIn(result[1], "alert") :
              /\ Breaching(s)
              /\ s.Temperature = maxSensorOf(input).Temperature


\* C30: the report of BuildTemperature has at most discordFieldLimit
\* fields, the overview field, the sensor fields and the truncation notice
\* counted.
C30_FieldLimit ==
    stage = "shown" => Len(result[1].Fields) <= discordFieldLimit

=============================================================================
